---- MODULE Spec2Model ----
(***************************************************************************)
(* A model of flopy/mf6/mfpackage.py: MFBlockHeader, MFBlock and MFPackage *)
(* (block header handling, the per-block load and write loops, the package *)
(* scan loop and the validity checks).                                     *)
(*                                                                         *)
(* Text files are sequences of lines; a line is a record                   *)
(*   [nl, ind, toks]: nl = the line ends with a newline (FALSE only for    *)
(*   the '' that readline returns at end of file), ind = the line starts   *)
(*   with white space, toks = its white-space separated tokens.            *)
(* Python's None is the empty tuple <<>>, a present value x is <<x>>.      *)
(***************************************************************************)
EXTENDS Integers, Sequences, FiniteSets, TLC

\* ------------------------------------------------------------------ bounds
\* largest zero-based transient key given to build_mfdata / set_data
MaxKey == 1
\* largest number of blocks in a scanned input file
MaxBlocks == 2

\* ------------------------------------------------------------ basic values
None == <<>>
Some(x) == <<x>>

Line(toks) == [nl |-> TRUE, ind |-> FALSE, toks |-> toks]
ILine(toks) == [nl |-> TRUE, ind |-> TRUE, toks |-> toks]
EOF == [nl |-> FALSE, ind |-> FALSE, toks |-> <<>>]

\* v is evaluated once and handed to F as a value
Bind(v, F(_)) == CHOOSE y \in {F(x) : x \in {v}} : TRUE

Last(s) == s[Len(s)]
Front(s) == SubSeq(s, 1, Len(s) - 1)

\* str.lower() on the tokens of the model
Lower(t) ==
    CASE t = "BEGIN" -> "begin"
      [] t = "END" -> "end"
      [] t = "PRINT" -> "print"
      [] t = "UNIT" -> "unit"
      [] t = "NPER" -> "nper"
      [] t = "FLAG" -> "flag"
      [] t = "OPTIONS" -> "options"
      [] t = "ReadAsArrays" -> "readasarrays"
      [] t = "READASARRAYS" -> "readasarrays"
      [] t = "OPEN/CLOSE" -> "open/close"
      [] t = "True" -> "true"
      [] t = "False" -> "false"
      [] OTHER -> t

\* len(token) for the tokens of the model: 1, 2, or 3 standing for "3 or more"
TokLen(t) ==
    IF t \in {"0", "1", "2", "3", "4", "5", "6", "7", "8", "9", "a", "#", "!", "F", "G"} THEN 1
    ELSE IF t \in {"00", "01", "02", "03", "04", "05", "06", "07", "08", "09", "ab", "//", "#c"} THEN 2
    ELSE 3

\* token[:3].upper() == 'END'
StartsWithEnd(t) == Lower(t) \in {"end", "ending"}

\* the first character of the token is '#' or '!' ('//' is two characters)
FirstCharIsMarker(t) == t \in {"#", "!", "#c"}

\* the token starts with one of the comment markers '#', '!', '//'
StartsWithMarker(t) == t \in {"#", "!", "#c", "//"}

\* int(token) for the decimal tokens of the model, with and without a leading zero
Canon == <<"0", "1", "2", "3", "4", "5", "6", "7", "8", "9">>
Padded == <<"00", "01", "02", "03", "04", "05", "06", "07", "08", "09">>
IsIntTok(t) == \E n \in 0..9 : Canon[n + 1] = t \/ Padded[n + 1] = t
ParseInt(t) == CHOOSE n \in 0..9 : Canon[n + 1] = t \/ Padded[n + 1] = t
\* '{}'.format(n) for the integers the model renders
FmtInt(n) == IF n \in 0..9 THEN Canon[n + 1] ELSE "?"

\* ------------------------------------------------------------------ schema
\* The block and dataset structures (mfstructure, an external collaborator) of
\* the package type the model loads and writes: an optional multi-dataset block
\* of scalars, a required single-dataset block, and an optional repeating block
\* with an integer header variable, a transient keyword and a lone recarray.
BlockNames == <<"options", "dims", "period">>
BlockSet == {BlockNames[i] : i \in 1..Len(BlockNames)}

DsStruct(d) ==
    CASE d = "print" -> [name |-> "print", block |-> "options", kind |-> "scalar_keyword",
                         optional |-> TRUE, kw |-> Some("print"), repeating |-> FALSE]
      [] d = "unit" -> [name |-> "unit", block |-> "options", kind |-> "scalar",
                        optional |-> TRUE, kw |-> Some("unit"), repeating |-> FALSE]
      [] d = "nper" -> [name |-> "nper", block |-> "dims", kind |-> "scalar",
                        optional |-> FALSE, kw |-> Some("nper"), repeating |-> FALSE]
      [] d = "flag" -> [name |-> "flag", block |-> "period", kind |-> "scalar_keyword_transient",
                        optional |-> TRUE, kw |-> Some("flag"), repeating |-> TRUE]
      [] d = "recs" -> [name |-> "recs", block |-> "period", kind |-> "list_transient",
                        optional |-> TRUE, kw |-> None, repeating |-> TRUE]

\* structure.data_structures of a block, in schema order
BlockDs(b) ==
    CASE b = "options" -> <<"print", "unit">>
      [] b = "dims" -> <<"nper">>
      [] b = "period" -> <<"flag", "recs">>

DsNames == {"print", "unit", "nper", "flag", "recs"}

\* structure.block_header_structure: the types of the header variables
BlockHdrStruct(b) == IF b = "period" THEN <<"integer">> ELSE <<>>

\* structure.repeating()
Repeating(b) == b = "period"

\* structure.number_non_optional_block_header_data()
NumNonOptHdr(b) == Len(BlockHdrStruct(b))

\* structure.number_non_optional_data()
NumNonOptData(b) ==
    Cardinality({i \in 1..Len(BlockDs(b)) : ~DsStruct(BlockDs(b)[i]).optional})

\* structure.get_all_recarrays()
AllRecarrays(b) ==
    SelectSeq(BlockDs(b), LAMBDA d : DsStruct(d).kind \in {"list", "list_transient", "list_multiple"})

\* ------------------------------------------------------------ MFBlockHeader
\* a header data item: the MFScalar that build_header_variables / _new_dataset
\* hands to data_factory
\* (data_factory is always called with enable=True)
HdrItem(type, data) == [type |-> type, data |-> data, enabled |-> TRUE]

\* MFBlockHeader.__init__
MFBlockHeader(name, vs, cmt) == [name |-> name, vs |-> vs, cmt |-> cmt, items |-> <<>>]

\* MFBlockHeader.get_transient_key: the data of the first non-keyword item
RECURSIVE FirstNonKeyword(_, _)
FirstNonKeyword(items, i) ==
    IF i > Len(items) THEN None
    ELSE IF items[i].type # "keyword" THEN items[i].data
    ELSE FirstNonKeyword(items, i + 1)

get_transient_key(h) == FirstNonKeyword(h.items, 1)

\* MFBlockHeader.is_same_header: "True", "False", or "IndexError" when the
\* header itself has no variable_strings (a header synthesized for writing)
is_same_header(self, other) ==
    IF Len(self.items) = 0 \/ Len(other.vs) = 0 THEN "True"
    ELSE IF self.items[1].type \in {"integer", "double"}
         THEN IF Len(self.vs) = 0 THEN "IndexError"
              ELSE IF self.vs[1] = other.vs[1] THEN "True" ELSE "False"
    ELSE "True"

\* MFScalar.get_file_entry(values_only=True, one_based=...) of a header item
ScalarFileEntry(item, one_based) ==
    IF item.data = None THEN <<>>
    ELSE <<FmtInt(IF one_based THEN item.data[1] + 1 ELSE item.data[1])>>

\* the one_based flag write_header and write_footer compute
is_one_based(item) == item.type = "integer"

\* MFBlockHeader.write_header: the tokens of the BEGIN line
write_header(h) ==
    Line(<<"BEGIN", h.name>>
         \o (IF Len(h.items) > 0 THEN ScalarFileEntry(h.items[1], is_one_based(h.items[1])) ELSE <<>>)
         \o h.cmt)

\* MFBlockHeader.write_footer: the tokens of the END line
write_footer(h) ==
    Line(<<"END", h.name>>
         \o (IF Len(h.items) > 0 THEN ScalarFileEntry(h.items[1], is_one_based(h.items[1])) ELSE <<>>))

\* MFBlockHeader.build_header_variables(data = [key]): one item holding key
build_header_variables(h, type, key) == [h EXCEPT !.items = <<HdrItem(type, Some(key))>>]

\* MFPackage._get_block_header_info: the header of a BEGIN line, or the
\* exception it raises (the name is indexed before the length is tested)
RECURSIVE SplitHeaderArgs(_, _, _, _, _)
SplitHeaderArgs(toks, i, comment, vs, cmt) ==
    IF i > Len(toks) THEN [vs |-> vs, cmt |-> cmt]
    ELSE LET c == comment \/ FirstCharIsMarker(toks[i])
         IN IF c THEN SplitHeaderArgs(toks, i + 1, c, vs, Append(cmt, toks[i]))
            ELSE SplitHeaderArgs(toks, i + 1, c, Append(vs, toks[i]), cmt)

get_block_header_info(toks) ==
    IF Len(toks) < 2 THEN [exc |-> "IndexError", hdr |-> MFBlockHeader("", <<>>, <<>>)]
    ELSE LET a == SplitHeaderArgs(toks, 3, FALSE, <<>>, <<>>)
         IN [exc |-> "none", hdr |-> MFBlockHeader(toks[2], a.vs, a.cmt)]

\* ------------------------------------------------------------------ MFBlock
\* A dataset holds a sequence of [key, val] entries: one entry under key 0 for
\* a plain dataset, one entry per transient key for a transient one; val is
\* the sequence of token lines that make up its text.
EmptyDs == [data |-> <<>>, enabled |-> TRUE]

\* MFBlock.__init__ and _structure_init, followed by the add_dataset calls with
\* data=None that the package constructor makes for every variable of the block
MFBlock(bn) ==
    [enabled |-> NumNonOptData(bn) > 0,
     loaded |-> FALSE,
     headers |-> <<[MFBlockHeader(bn, <<>>, <<>>) EXCEPT
                      !.items = [i \in 1..Len(BlockHdrStruct(bn)) |->
                                   HdrItem(BlockHdrStruct(bn)[i], None)]]>>,
     ext |-> None,
     ds |-> [d \in {BlockDs(bn)[i] : i \in 1..Len(BlockDs(bn))} |-> EmptyDs],
     trail |-> <<>>,
     pdc |-> <<>>]

\* self.datasets_keyword after _structure_init
KwSet(bn) == {DsStruct(BlockDs(bn)[i]).kw[1] :
                i \in {j \in 1..Len(BlockDs(bn)) : DsStruct(BlockDs(bn)[j]).kw # None}}

\* the dataset a keyword names: self.datasets_keyword[key].name
KwDs(bn, kw) == CHOOSE d \in DsNames : DsStruct(d).block = bn /\ DsStruct(d).kw = Some(kw)

\* dataset.has_data()
has_data(dset) == dset.data # <<>>

\* MFBlock.is_empty
is_empty(b) == \A d \in DOMAIN b.ds : ~has_data(b.ds[d])

\* the value a dataset holds under a key, None when it has none
RECURSIVE EntryAt(_, _, _)
EntryAt(data, key, i) ==
    IF i > Len(data) THEN None
    ELSE IF data[i].key = key THEN Some(data[i].val)
    ELSE EntryAt(data, key, i + 1)

\* set_data(val, key): replace the entry of the key, or add it at the end
SetEntry(data, key, val) ==
    IF EntryAt(data, key, 1) = None THEN Append(data, [key |-> key, val |-> val])
    ELSE [i \in 1..Len(data) |-> IF data[i].key = key THEN [key |-> key, val |-> val] ELSE data[i]]

\* dataset.get_active_key_list(): the keys in insertion order
ActiveKeys(dset) == [i \in 1..Len(dset.data) |-> dset.data[i].key]

\* the int(initial_val[0]) - 1 of _new_dataset: header text is one-based, the
\* stored stress period is zero-based
StoredKeyAsWritten(tok) == ParseInt(tok)
StoredKey(tok) == ParseInt(tok) - 1

\* MFBlock._new_dataset(block_header=True): the data item appended to the
\* last header for the header's variable_strings (None for no strings)
new_header_item(type, vs) ==
    IF type = "integer" /\ Len(vs) >= 1 THEN HdrItem(type, Some(StoredKey(vs[1])))
    ELSE HdrItem(type, None)

\* MFBlock._header_exists(key)
header_exists(b, key) ==
    \E i \in 1..Len(b.headers) :
        LET tk == get_transient_key(b.headers[i]) IN tk # None /\ tk[1] = key

build_header_in_place(bn, b, key) ==
    [b EXCEPT !.headers[Len(b.headers)] =
        build_header_variables(b.headers[Len(b.headers)], BlockHdrStruct(bn)[1], key)]

\* MFBlock._build_repeating_header([key])
build_repeating_header(bn, b, key) ==
    IF header_exists(b, key) THEN b
    ELSE LET last == Last(b.headers)
             hs == IF Len(last.items) = 1 /\ last.items[1].data # None
                   THEN Append(b.headers, MFBlockHeader(bn, <<>>, <<>>))
                   ELSE b.headers
         IN [b EXCEPT !.headers =
                [hs EXCEPT ![Len(hs)] = build_header_variables(hs[Len(hs)], BlockHdrStruct(bn)[1], key)]]

\* ------------------------------------------------------------- MFBlock.load
\* The load of one block instance is computed on a record
\*   [b, pp, ex, cm, pdc, log, st]
\* b = the block, pp = the read position in the package file, ex = the external
\* file read instead once an open/close line was met (None, or <<[name, p]>>),
\* cm = the local list `comments`, log = the dataset loader calls made so far,
\* st = how the call ends.  The context c gives the package file (c.pf), the
\* other files (c.fs), the block name (c.bn), read_as_arrays (c.raa) and the
\* behaviour of the dataset loaders during this call (c.lm).
ReadAt(f, p) == IF p <= Len(f) THEN f[p] ELSE EOF

\* fd_block.readline(): the line under the cursor
CurLine(c, s) ==
    IF s.ex = None THEN ReadAt(c.pf, s.pp) ELSE ReadAt(c.fs[s.ex[1].name], s.ex[1].p)

\* ... and the cursor after it
Advance(c, s) ==
    IF s.ex = None
    THEN [s EXCEPT !.pp = IF s.pp <= Len(c.pf) THEN s.pp + 1 ELSE s.pp]
    ELSE [s EXCEPT !.ex = Some([name |-> s.ex[1].name,
                                p |-> IF s.ex[1].p <= Len(c.fs[s.ex[1].name])
                                      THEN s.ex[1].p + 1 ELSE s.ex[1].p])]

\* MFComment.is_comment(text, include_empty_line) on the tokens of a line
is_comment(toks, include_empty_line) ==
    IF toks = <<>> THEN include_empty_line ELSE StartsWithMarker(toks[1])

\* len(arr_line[0]) > 2 and arr_line[0][:3].upper() == 'END'
IsEndToks(toks) == toks # <<>> /\ TokLen(toks[1]) > 2 /\ StartsWithEnd(toks[1])

\* results[1][:3].upper() == 'END' on the raw line a loader handed back
RawStartsWithEnd(l) == ~l.ind /\ l.toks # <<>> /\ StartsWithEnd(l.toks[1])

\* mfdatautil.find_keyword: the keyword the line starts with, if any
find_keyword(toks, kws) ==
    IF toks # <<>> /\ Lower(toks[1]) \in kws THEN Some(Lower(toks[1])) ELSE None

\* The behaviours of dataset.load (an external collaborator) the model draws
\* from.  Every call stores the line it is given and returns (continue, next
\* line):
\*   std    a scalar returns (False, None); a list also stores the rows that
\*          follow and returns (False, the line that ended them)
\*   handT  reads one more line and returns (True, that line)
\*   handF  reads one more line and returns (False, that line)
\*   raiseT raises MFInvalidTransientBlockHeaderException
\*   raiseE raises MFDataException
LoaderModes == {"std", "handT", "handF", "raiseT", "raiseE"}

IsListKind(d) == DsStruct(d).kind \in {"list", "list_transient", "list_multiple"}

\* the rows a list loader reads after its first line
RECURSIVE ListRows(_, _, _)
ListRows(c, s, acc) ==
    Bind(CurLine(c, s), LAMBDA l :
         IF l.nl /\ l.toks # <<>> /\ ~IsEndToks(l.toks) /\ ~is_comment(l.toks, TRUE)
         THEN ListRows(c, Advance(c, s), Append(acc, l.toks))
         ELSE [s |-> Advance(c, s), rows |-> acc, nl |-> Some(l)])

\* the key a dataset stores a loaded value under
LoadKey(s, d) ==
    IF DsStruct(d).repeating /\ s.b.headers # <<>> /\ get_transient_key(Last(s.b.headers)) # None
    THEN get_transient_key(Last(s.b.headers))[1]
    ELSE 0

StoreLoaded(s, d, line, val) ==
    [s EXCEPT !.b.ds[d].data = IF val = <<>> THEN @ ELSE SetEntry(@, LoadKey(s, d), val),
              !.log = Append(@, [ds |-> d, toks |-> line.toks])]

\* dataset.load(line, fd, block_header, initial_comment)
DatasetLoad(c, s, d, line) ==
    LET first == IF line.toks = <<>> THEN <<>> ELSE <<line.toks>>
    IN CASE c.lm = "raiseT" ->
              [s |-> [s EXCEPT !.log = Append(@, [ds |-> d, toks |-> line.toks])],
               cont |-> FALSE, nl |-> None, exc |-> "MFInvalidTransientBlockHeaderException"]
         [] c.lm = "raiseE" ->
              [s |-> [s EXCEPT !.log = Append(@, [ds |-> d, toks |-> line.toks])],
               cont |-> FALSE, nl |-> None, exc |-> "MFDataException"]
         [] c.lm = "handT" ->
              [s |-> Advance(c, StoreLoaded(s, d, line, first)),
               cont |-> TRUE, nl |-> Some(CurLine(c, s)), exc |-> "none"]
         [] c.lm = "handF" ->
              [s |-> Advance(c, StoreLoaded(s, d, line, first)),
               cont |-> FALSE, nl |-> Some(CurLine(c, s)), exc |-> "none"]
         [] OTHER ->
              IF IsListKind(d)
              THEN Bind(ListRows(c, s, first), LAMBDA r :
                        [s |-> StoreLoaded(r.s, d, line, r.rows),
                         cont |-> FALSE, nl |-> r.nl, exc |-> "none"])
              ELSE [s |-> StoreLoaded(s, d, line, first),
                    cont |-> FALSE, nl |-> None, exc |-> "none"]

\* MFBlock._find_data_by_keyword: [s, key, nl, st]; st is "ok" or the
\* exception that leaves the method
RECURSIVE FindLoop(_, _, _, _, _)
FindLoop(c, s, cont, nl, first_key) ==
    IF ~cont THEN [s |-> s, key |-> first_key, nl |-> nl, st |-> "ok"]
    ELSE IF nl = None THEN [s |-> s, key |-> None, nl |-> None, st |-> "AttributeError"]
    ELSE LET arr_line == nl[1].toks
             key == find_keyword(arr_line, KwSet(c.bn))
         IN IF key # None
            THEN Bind(DatasetLoad(c, s, KwDs(c.bn, key[1]), nl[1]), LAMBDA r :
                      IF r.exc # "none"
                      THEN [s |-> r.s, key |-> None, nl |-> None, st |-> r.exc]
                      ELSE FindLoop(c, r.s, r.cont, r.nl, IF first_key = None THEN key ELSE first_key))
            ELSE IF arr_line = <<>>
            THEN [s |-> s, key |-> None, nl |-> None, st |-> "IndexError"]
            ELSE IF Lower(arr_line[1]) = "readasarrays" /\ Lower(c.bn) = "options" /\ ~c.raa
            THEN [s |-> s, key |-> None, nl |-> None, st |-> "ReadAsArraysException"]
            ELSE [s |-> s, key |-> first_key, nl |-> nl, st |-> "ok"]

\* the keyword attribute of a recarray structure: its name, which is neither a
\* key of datasets_keyword nor comment text
RecarrayKeyword(d) == DsStruct(d).name

find_data_by_keyword(c, s, line) ==
    Bind(FindLoop(c, s, TRUE, Some(line), None), LAMBDA r :
         IF r.st # "ok" THEN r
         ELSE IF r.key = None
         THEN \* no keyword on the line: a lone recarray takes it by default
              IF Len(AllRecarrays(c.bn)) # 1
              THEN [s |-> r.s, key |-> None, nl |-> None, st |-> "ok"]
              ELSE Bind(DatasetLoad(c, r.s, AllRecarrays(c.bn)[1], line), LAMBDA q :
                        [s |-> q.s, key |-> Some(RecarrayKeyword(AllRecarrays(c.bn)[1])), nl |-> q.nl,
                         st |-> IF q.exc = "none" THEN "ok" ELSE q.exc])
         ELSE r)

\* MFBlock._save_comments
save_comments(c, s, arr_line, key) ==
    IF key # None /\ key[1] \in KwSet(c.bn) THEN s
    ELSE IF is_comment(key, TRUE) THEN [s EXCEPT !.cm = Append(@, arr_line)]
    ELSE s

\* the initial comment loop of load: skip comment and empty lines; the '' of
\* end of file counts as an empty line, so the loop never leaves it ("hang")
RECURSIVE SkipInitialComments(_, _)
SkipInitialComments(c, s) ==
    Bind(CurLine(c, s), LAMBDA l :
         IF is_comment(l.toks, TRUE)
         THEN IF l = EOF THEN [s EXCEPT !.st = "hang"] ELSE SkipInitialComments(c, Advance(c, s))
         ELSE s)

\* the trailing comment loop of a single-dataset block: read on until a line
\* that starts with END, an empty line, or end of file
RECURSIVE PostDataComments(_, _, _)
PostDataComments(c, s, toks) ==
    IF toks # <<>> /\ ~StartsWithEnd(toks[1])
    THEN Bind(CurLine(c, s), LAMBDA l :
              IF l.toks # <<>> /\ ~StartsWithEnd(l.toks[1])
              THEN PostDataComments(c, [Advance(c, s) EXCEPT !.pdc = Append(@, l.toks)], l.toks)
              ELSE PostDataComments(c, Advance(c, s), l.toks))
    ELSE s

\* the single-dataset branch of load
LoadSingle(c, s, line) ==
    Bind(DatasetLoad(c, s, BlockDs(c.bn)[1], line), LAMBDA r :
         IF r.exc # "none" THEN [r.s EXCEPT !.st = r.exc]
         ELSE PostDataComments(c, [r.s EXCEPT !.pdc = <<>>],
                               IF r.nl = None THEN <<>> ELSE r.nl[1].toks))

\* the loop of the multi-dataset branch over the lines after the first one
RECURSIVE LoadUnordered(_, _)
LoadUnordered(c, s) ==
    Bind(CurLine(c, s), LAMBDA line :
         IF line = EOF THEN s
         ELSE IF line.toks = <<>> THEN LoadUnordered(c, Advance(c, s))
         ELSE IF IsEndToks(line.toks) THEN Advance(c, s)
         ELSE Bind(find_data_by_keyword(c, Advance(c, s), line), LAMBDA r :
                   IF r.st # "ok" THEN [r.s EXCEPT !.st = r.st]
                   ELSE IF r.nl # None /\ RawStartsWithEnd(r.nl[1])
                   THEN save_comments(c, r.s, line.toks, r.key)
                   ELSE LoadUnordered(c, save_comments(c, r.s, line.toks, r.key))))

\* the multi-dataset branch of load
LoadMulti(c, s, line) ==
    Bind(find_data_by_keyword(c, s, line), LAMBDA r :
         IF r.st = "MFInvalidTransientBlockHeaderException"
         THEN [r.s EXCEPT !.b.headers = Front(@), !.st = "transient"]
         ELSE IF r.st # "ok" THEN [r.s EXCEPT !.st = r.st]
         ELSE IF r.nl = None \/ ~RawStartsWithEnd(r.nl[1])
         THEN LoadUnordered(c, save_comments(c, r.s, line.toks, r.key))
         ELSE save_comments(c, r.s, line.toks, r.key))

\* an open/close line: one more line of the package file is read and dropped,
\* the file name is remembered and reading goes on in the external file
OpenClose(c, s, line) ==
    [Advance(c, s) EXCEPT !.b.ext = Some(line.toks[2]),
                          !.ex = Some([name |-> line.toks[2], p |-> 1])]

LoadDispatch(c, s, line) ==
    IF Len(BlockDs(c.bn)) <= 1 THEN LoadSingle(c, s, line) ELSE LoadMulti(c, s, line)

\* the body of load from the first readline on
LoadBody(c, s0) ==
    Bind(SkipInitialComments(c, s0), LAMBDA s :
         IF s.st = "hang" THEN s
         ELSE Bind(CurLine(c, s), LAMBDA line :
              IF IsEndToks(line.toks) THEN Advance(c, s)
              ELSE IF Lower(line.toks[1]) = "open/close"
              THEN Bind(OpenClose(c, Advance(c, s), line), LAMBDA x :
                        LoadDispatch(c, Advance(c, x), CurLine(c, x)))
              ELSE LoadDispatch(c, Advance(c, s), line)))

\* MFBlock.load(block_header, fd): the record the call ends in.  st is "ok"
\* (the instance was loaded), "short", "dup" or "transient" (the call returned
\* early), "hang", or the name of the exception that leaves the call.
RECURSIVE SameHeaderScan(_, _, _)
SameHeaderScan(hs, hdr, i) ==
    IF i > Len(hs) THEN "False"
    ELSE LET r == is_same_header(hs[i], hdr)
         IN IF r = "False" THEN SameHeaderScan(hs, hdr, i + 1) ELSE r

\* the header as load registers it: with the data item _new_dataset builds
RegisteredHeader(bn, hdr, bad) ==
    IF Len(BlockHdrStruct(bn)) > 0 /\ ~bad
    THEN [hdr EXCEPT !.items = Append(@, new_header_item(BlockHdrStruct(bn)[1], hdr.vs))]
    ELSE hdr

DuplicateMerged(s0) == [s0 EXCEPT !.st = "dup", !.b.headers = @ \o @]

\* the return of the duplicate header test
DuplicateReturn(s0) == [s0 EXCEPT !.st = "dup"]

ShortfallReadsLine(s0) == [s0 EXCEPT !.st = "short", !.pp = @ + 1]

\* the return of the header shortfall test, before any readline
ShortfallReturn(s0) == [s0 EXCEPT !.st = "short"]

LoadInitKeepsEnabled(s0, bn, hdr, bad) ==
    [s0 EXCEPT !.b.headers = Append(IF s0.b.loaded THEN s0.b.headers ELSE <<>>,
                                    RegisteredHeader(bn, hdr, bad))]

\* the "init" step of load: the block is enabled, the header list is emptied
\* on the first load, and the header is appended with its data item
LoadInit(s0, bn, hdr, bad) ==
    [s0 EXCEPT !.b.enabled = TRUE,
               !.b.headers = Append(IF s0.b.loaded THEN s0.b.headers ELSE <<>>,
                                    RegisteredHeader(bn, hdr, bad))]

MFBlock_load(c, b, hdr, pp) ==
    LET s0 == [b |-> b, pp |-> pp, ex |-> None, cm |-> <<>>, pdc |-> b.pdc, log |-> <<>>, st |-> "ok"]
        same == IF b.loaded THEN SameHeaderScan(b.headers, hdr, 1) ELSE "False"
        bad == Len(BlockHdrStruct(c.bn)) > 0 /\ BlockHdrStruct(c.bn)[1] = "integer"
               /\ Len(hdr.vs) >= 1 /\ ~IsIntTok(hdr.vs[1])
        s1 == LoadInit(s0, c.bn, hdr, bad)
    IN IF Len(hdr.vs) < NumNonOptHdr(c.bn) THEN ShortfallReturn(s0)
       ELSE IF same = "True" THEN DuplicateReturn(s0)
       ELSE IF same # "False" THEN [s0 EXCEPT !.st = same]
       ELSE IF bad THEN [s1 EXCEPT !.st = "ValueError"]
       ELSE Bind(LoadBody(c, s1), LAMBDA s2 :
                 IF s2.st = "ok"
                 THEN [s2 EXCEPT !.b.trail = s2.cm, !.b.loaded = TRUE, !.b.pdc = s2.pdc]
                 ELSE [s2 EXCEPT !.b.pdc = s2.pdc])

\* ------------------------------------------------------------ MFBlock.write
\* MFBlock._find_repeating_datasets
RepeatingDatasets(bn) == SelectSeq(BlockDs(bn), LAMBDA d : DsStruct(d).repeating)

add_missing_first_only(bn, b, keys, i) ==
    IF keys = <<>> THEN b ELSE build_repeating_header(bn, b, keys[1])

\* MFBlock._add_missing_block_headers for the keys of one dataset
RECURSIVE add_missing_block_headers(_, _, _, _)
add_missing_block_headers(bn, b, keys, i) ==
    IF i > Len(keys) THEN b
    ELSE add_missing_block_headers(bn, build_repeating_header(bn, b, keys[i]), keys, i + 1)

RECURSIVE AddMissingAll(_, _, _, _)
AddMissingAll(bn, b, dsets, i) ==
    IF i > Len(dsets) THEN b
    ELSE AddMissingAll(bn, add_missing_block_headers(bn, b, ActiveKeys(b.ds[dsets[i]]), 1), dsets, i + 1)

\* block_headers[-1] of an empty header list raises IndexError
NeedsHeaderOfEmptyList(bn, b) ==
    b.headers = <<>> /\ \E i \in 1..Len(RepeatingDatasets(bn)) : has_data(b.ds[RepeatingDatasets(bn)[i]])

\* dataset.get_file_entry(key): the lines of the dataset's text
TextLines(val) == [i \in 1..Len(val) |-> ILine(val[i])]

FileEntry(dset, d, tk) ==
    IF DsStruct(d).repeating
    THEN IF tk = None \/ EntryAt(dset.data, tk[1], 1) = None THEN <<>>
         ELSE TextLines(EntryAt(dset.data, tk[1], 1)[1])
    ELSE IF dset.data = <<>> THEN <<>> ELSE TextLines(dset.data[1].val)

RECURSIVE DatasetsText(_, _, _, _)
DatasetsText(bn, b, tk, i) ==
    IF i > Len(BlockDs(bn)) THEN <<>>
    ELSE FileEntry(b.ds[BlockDs(bn)[i]], BlockDs(bn)[i], tk) \o DatasetsText(bn, b, tk, i + 1)

\* MFComment.write: comment text reaches the file only when comments are on
CommentText(lines, con) == IF con THEN lines ELSE <<>>

write_block_body_last(bn, b, h, post, con) ==
    LET tk == IF Len(h.items) > 0 THEN get_transient_key(h) ELSE None
        body == DatasetsText(bn, b, tk, 1) \o CommentText(TextLines(b.trail), con)
    IN [main |-> <<write_header(h), write_footer(h)>> \o CommentText(post, con)
                 \o (IF con THEN <<>> ELSE <<Line(<<>>)>>)
                 \o (IF b.ext = None THEN body ELSE <<ILine(<<"open/close", b.ext[1]>>)>>),
        ext |-> IF b.ext = None THEN None ELSE Some(body)]

\* MFBlock._write_block for one header: the lines that reach the package
\* file (main) and, with an external file name, the text the external file
\* holds after it was opened with 'w' (ext, None without one)
write_block(bn, b, h, post, con) ==
    LET tk == IF Len(h.items) > 0 THEN get_transient_key(h) ELSE None
        body == DatasetsText(bn, b, tk, 1) \o CommentText(TextLines(b.trail), con)
        tail == <<write_footer(h)>> \o CommentText(post, con)
                \o (IF con THEN <<>> ELSE <<Line(<<>>)>>)
    IN IF b.ext = None
       THEN [main |-> <<write_header(h)>> \o body \o tail, ext |-> None]
       ELSE [main |-> <<write_header(h), ILine(<<"open/close", b.ext[1]>>)>> \o tail,
             ext |-> Some(body)]

\* the calls of _write_block that MFBlock.write makes, one per header
RECURSIVE WriteHeaders(_, _, _, _, _, _)
WriteHeaders(bn, b, hs, post, con, acc) ==
    IF hs = <<>> THEN acc
    ELSE Bind(write_block(bn, b, hs[1], post, con), LAMBDA w :
              WriteHeaders(bn, b, Tail(hs), post, con,
                           [main |-> acc.main \o w.main,
                            ext |-> IF w.ext = None THEN acc.ext ELSE w.ext]))

\* the part of _write_block that is done when the first get_file_entry raises
write_block_raise(b, h) ==
    IF b.ext = None THEN [main |-> <<write_header(h)>>, ext |-> None]
    ELSE [main |-> <<write_header(h), ILine(<<"open/close", b.ext[1]>>)>>, ext |-> Some(<<>>)]

\* MFBlock.write: [b, main, ext, st]; st is "ok", "skipped" or the exception.
\* wm is "raise" when the dataset serializer raises MFDataException.
MFBlock_write(bn, b, post, con, wm) ==
    IF is_empty(b) /\ Lower(bn) # "exchanges" /\ Lower(bn) # "options"
    THEN [b |-> b, main |-> <<>>, ext |-> None, st |-> "skipped"]
    ELSE IF \/ NeedsHeaderOfEmptyList(bn, b)
            \/ b.headers = <<>> /\ ~(Repeating(bn) /\ Len(RepeatingDatasets(bn)) > 0)
    THEN [b |-> b, main |-> <<>>, ext |-> None, st |-> "IndexError"]
    ELSE Bind(IF Repeating(bn) THEN AddMissingAll(bn, b, RepeatingDatasets(bn), 1) ELSE b, LAMBDA nb :
           Bind(IF Repeating(bn) /\ Len(RepeatingDatasets(bn)) > 0
                THEN nb.headers ELSE <<nb.headers[1]>>, LAMBDA hs :
              IF wm = "raise" /\ hs # <<>>
              THEN Bind(write_block_raise(nb, hs[1]), LAMBDA w :
                        [b |-> nb, main |-> w.main, ext |-> w.ext, st |-> "MFDataException"])
              ELSE Bind(WriteHeaders(bn, nb, hs, post, con, [main |-> <<>>, ext |-> None]),
                        LAMBDA w : [b |-> nb, main |-> w.main, ext |-> w.ext, st |-> "ok"])))

\* ------------------------------------------------------------------ validity
\* a truth value as the result of a call
BoolStr(v) == IF v THEN "True" ELSE "False"

\* MFBlock.is_allowed for a block whose structure has the dependency dep (None,
\* or the rule [pred, val] of variable_value_when_active) when the data store
\* holds var under the dependency's path (None when the path is not in the
\* store, else the value): "True", "False" or the exception float() raises.
\* A value found in the store counts as true in the tests of the method.
MFBlock_is_allowed(dep, var) ==
    IF dep = None THEN "True"
    ELSE IF dep[1].pred = "Exists"
    THEN IF var # None /\ Lower(dep[1].val) = "true" THEN "True"
         ELSE IF var = None /\ Lower(dep[1].val) = "false" THEN "True"
         ELSE "False"
    ELSE IF var = None THEN "False"
    ELSE IF dep[1].pred = ">"
    THEN IF ~IsIntTok(dep[1].val) THEN "ValueError" ELSE BoolStr(var[1] > ParseInt(dep[1].val))
    ELSE IF dep[1].pred = "<"
    THEN IF ~IsIntTok(dep[1].val) THEN "ValueError" ELSE BoolStr(var[1] < ParseInt(dep[1].val))
    ELSE "True"

\* no block of the package type of the model has a variable_dependant_path
BlockDep(bn) == None
is_allowed(bn) == MFBlock_is_allowed(BlockDep(bn), None) = "True"

\* MFBlock.is_valid(): "False" when a check fails, "None" when the method
\* falls off its end.  ok is what dataset.is_valid() answers (an external
\* collaborator).  The dataset loop tests the bound method dataset.is_valid
\* itself, which is always true.
BoundMethodIsTrue == TRUE

MFBlock_is_valid(bn, b, ok) ==
    IF \E d \in DOMAIN b.ds :
          \/ ~DsStruct(d).optional /\ ~b.ds[d].enabled
          \/ b.ds[d].enabled /\ ~BoundMethodIsTrue
    THEN "False"
    ELSE IF \E i \in 1..Len(b.headers) : \E j \in 1..Len(b.headers[i].items) :
               \/ ~b.headers[i].items[j].enabled
               \/ b.headers[i].items[j].enabled /\ ~ok
    THEN "False"
    ELSE "None"

\* MFPackage.is_valid(): [res, err]; res is "True", "False", or the exception
\* raised while the error text is built (MFBlock has no attribute block_header)
RECURSIVE PkgValidFrom(_, _)
PkgValidFrom(bs, i) ==
    IF i > Len(BlockNames) THEN [res |-> "True", err |-> None]
    ELSE LET bn == BlockNames[i]
         IN IF NumNonOptData(bn) > 0 /\ ~bs[bn].enabled /\ is_allowed(bn)
            THEN [res |-> "AttributeError", err |-> None]
            ELSE IF bs[bn].enabled /\ ~BoundMethodIsTrue
            THEN [res |-> "AttributeError", err |-> None]
            ELSE PkgValidFrom(bs, i + 1)

MFPackage_is_valid(bs) == PkgValidFrom(bs, 1)

\* ---------------------------------------------------------------- MFPackage
\* The package file is PkgFile; blocks may redirect into the files ExtFiles.
PkgFile == "pkg"
ExtFiles == {"F", "G"}
FileNames == {PkgFile} \cup ExtFiles

VARIABLES
    blocks,       \* self.blocks: block name -> MFBlock
    raa,          \* self.structure.read_as_arrays
    fs,           \* the files: name -> sequence of lines
    handles,      \* name -> number of open file objects on that file
    pc,           \* "idle", "scan" (inside _load_blocks), "hang"
    pos,          \* read position of fd_input_file in the package file
    found_first_block,
    blocks_read,
    pkg_hdr,      \* mfdata[path + ('pkg_hdr_comments',)].text
    cmts,         \* the MFComment objects _load_blocks creates, by creation order
    post_ref,     \* self.post_block_comments: an index into cmts, 0 before any load
    blk_post,     \* mfdata[blk_post_comment_path]: block -> index into cmts, 0 = initial
    exc,          \* the exception that reached the caller of the last operation
    last,         \* what the last operation did (for the properties)
    orig,         \* the package as it was when it was last written
    comments_on,  \* simulation_data.comments_on
    ds_valid,     \* what is_valid() of a dataset or header item answers
    built,        \* how many variables of the schema build_mfdata was called for
    max_blocks,   \* the max_blocks argument of _load_blocks
    pure          \* every dataset loader and serializer so far behaved as documented

vars == <<blocks, raa, fs, handles, pc, pos, found_first_block, blocks_read,
          pkg_hdr, cmts, post_ref, blk_post, exc, last, orig, comments_on, ds_valid,
          built, max_blocks, pure>>

\* MFPackage.__init__ followed by the build_mfdata calls of the package class
FreshBlocks == [bn \in BlockSet |-> MFBlock(bn)]

NoLast == [op |-> "none", bn |-> "", st |-> "", log |-> <<>>, lines |-> <<>>, at |-> 0,
           res |-> "", err |-> <<>>]

\* MFPackage._store_comment
store_comment_cmts(line) ==
    IF found_first_block /\ line # EOF THEN [cmts EXCEPT ![post_ref] = Append(@, line)] ELSE cmts
store_comment_hdr_always(line) == IF line # EOF THEN Append(pkg_hdr, line) ELSE pkg_hdr
store_comment_hdr(line) ==
    IF ~found_first_block /\ line # EOF THEN Append(pkg_hdr, line) ELSE pkg_hdr

\* '{}-{}'.format(name, num) for the names that have numbered aliases
Alias(name, num) ==
    CASE name = "dims" /\ num = 1 -> "dims-1"
      [] name = "dims" /\ num = 2 -> "dims-2"
      [] name = "dims" /\ num = 3 -> "dims-3"
      [] name = "dims" /\ num = 4 -> "dims-4"
      [] OTHER -> "?"

\* the while loop of the resolution: reg are the keys of self.blocks, ok the
\* keys whose block answers is_allowed() with True
RECURSIVE ProbeKey(_, _, _, _, _)
ProbeKey(name, key, num, reg, ok) ==
    IF key \in reg /\ key \notin ok THEN ProbeKey(name, Alias(name, num), num + 1, reg, ok) ELSE key

resolve_first_alias(name, reg, ok) == IF Alias(name, 1) \in reg THEN Alias(name, 1) ELSE name

\* the block key _load_blocks resolves a lower-case header name to
resolve_block_key(name, reg, ok) ==
    IF Alias(name, 1) \in reg THEN ProbeKey(name, Alias(name, 1), 1, reg, ok) ELSE name

block_key_of(name) ==
    resolve_block_key(Lower(name), BlockSet, {b \in BlockSet : is_allowed(b)})

\* len(clean_line) > 4 and clean_line[:5].upper() == 'BEGIN'
IsBeginLine(l) == l.toks # <<>> /\ Lower(l.toks[1]) = "begin"

\* the loop that reads an unrecognized block as comments: [p, lines]
RECURSIVE Swallow(_, _, _)
Swallow(f, p, acc) ==
    LET l == ReadAt(f, p)
    IN IF l = EOF THEN [p |-> p, lines |-> acc]
       ELSE IF l.toks # <<>> /\ (TokLen(l.toks[1]) <= 2 \/ StartsWithEnd(l.toks[1]))
       THEN [p |-> p + 1, lines |-> Append(acc, l)]
       ELSE Swallow(f, p + 1, Append(acc, l))

CurScanLine == ReadAt(fs[PkgFile], pos)

Scanning == pc = "scan"

\* MFPackage.load up to the first readline of _load_blocks
StartLoad ==
    /\ pc = "idle" /\ last.op = "none"
    /\ handles' = [handles EXCEPT ![PkgFile] = @ + 1]
    /\ pkg_hdr' = <<>>
    /\ cmts' = Append(cmts, <<>>)
    /\ post_ref' = Len(cmts) + 1
    /\ blocks_read' = 0
    /\ found_first_block' = FALSE
    /\ pos' = 1
    /\ pc' = "scan"
    /\ exc' = "none"
    /\ last' = [NoLast EXCEPT !.op = "start"]
    /\ UNCHANGED <<max_blocks, pure, blocks, raa, comments_on, ds_valid, built, fs, blk_post, orig>>

\* one pass of the scan loop over a comment or empty line
ScanComment ==
    /\ Scanning
    /\ CurScanLine # EOF
    /\ is_comment(CurScanLine.toks, TRUE)
    /\ cmts' = store_comment_cmts(CurScanLine)
    /\ pkg_hdr' = store_comment_hdr(CurScanLine)
    /\ pos' = pos + 1
    /\ last' = [NoLast EXCEPT !.op = "comment", !.lines = <<CurScanLine>>, !.at = pos]
    /\ UNCHANGED <<max_blocks, pure, blocks, raa, comments_on, ds_valid, built, fs, handles, pc, found_first_block, blocks_read,
                   post_ref, blk_post, exc, orig>>

\* one pass over a line that is neither a comment nor a BEGIN line
ScanStray ==
    /\ Scanning
    /\ CurScanLine # EOF
    /\ ~is_comment(CurScanLine.toks, TRUE)
    /\ ~IsBeginLine(CurScanLine)
    /\ cmts' = IF RawStartsWithEnd(CurScanLine) THEN cmts ELSE store_comment_cmts(CurScanLine)
    /\ pkg_hdr' = IF RawStartsWithEnd(CurScanLine) THEN pkg_hdr ELSE store_comment_hdr(CurScanLine)
    /\ pos' = pos + 1
    /\ last' = [NoLast EXCEPT !.op = "stray", !.lines = <<CurScanLine>>, !.at = pos]
    /\ UNCHANGED <<max_blocks, pure, blocks, raa, comments_on, ds_valid, built, fs, handles, pc, found_first_block, blocks_read,
                   post_ref, blk_post, exc, orig>>

\* a BEGIN line without a block name: _get_block_header_info raises before
\* its own length test, and load lets the exception pass with the file open
ScanBadHeader ==
    /\ Scanning
    /\ IsBeginLine(CurScanLine)
    /\ get_block_header_info(CurScanLine.toks).exc # "none"
    /\ exc' = get_block_header_info(CurScanLine.toks).exc
    /\ pc' = "idle"
    /\ pos' = pos + 1
    /\ last' = [NoLast EXCEPT !.op = "bad_header", !.lines = <<CurScanLine>>, !.at = pos]
    /\ UNCHANGED <<max_blocks, pure, blocks, raa, comments_on, ds_valid, built, fs, handles, found_first_block, blocks_read,
                   pkg_hdr, cmts, post_ref, blk_post, orig>>

\* a BEGIN line whose block key is not in self.blocks: the block is read as
\* comments
ScanUnknownBlock ==
    /\ Scanning
    /\ IsBeginLine(CurScanLine)
    /\ get_block_header_info(CurScanLine.toks).exc = "none"
    /\ LET hdr == get_block_header_info(CurScanLine.toks).hdr
           r == Swallow(fs[PkgFile], pos + 1, <<CurScanLine>>)
       IN /\ block_key_of(hdr.name) \notin BlockSet
          /\ cmts' = IF found_first_block THEN [cmts EXCEPT ![post_ref] = @ \o r.lines] ELSE cmts
          /\ pkg_hdr' = IF found_first_block THEN pkg_hdr ELSE pkg_hdr \o r.lines
          /\ pos' = r.p
          /\ last' = [NoLast EXCEPT !.op = "unknown", !.bn = Lower(hdr.name),
                                    !.lines = r.lines, !.at = pos]
    /\ UNCHANGED <<max_blocks, pure, blocks, raa, comments_on, ds_valid, built, fs, handles, pc, found_first_block, blocks_read,
                   post_ref, blk_post, exc, orig>>

\* skip_block of _load_blocks: the block was loaded before and the structure
\* of the header's name is not repeating
skip_block_never(b, name) == FALSE
skip_block(b, name) == b.loaded /\ ~Repeating(Lower(name))

\* a BEGIN line of a loaded block that is not a repeating block: warn and skip
ScanSkipDuplicate ==
    /\ Scanning
    /\ IsBeginLine(CurScanLine)
    /\ get_block_header_info(CurScanLine.toks).exc = "none"
    /\ LET hdr == get_block_header_info(CurScanLine.toks).hdr
           bk == block_key_of(hdr.name)
       IN /\ bk \in BlockSet
          /\ skip_block(blocks[bk], hdr.name)
          /\ last' = [NoLast EXCEPT !.op = "skip", !.bn = bk, !.lines = <<CurScanLine>>, !.at = pos]
    /\ found_first_block' = TRUE
    /\ cmts' = Append(cmts, <<>>)
    /\ post_ref' = Len(cmts) + 1
    /\ pos' = pos + 1
    /\ UNCHANGED <<max_blocks, pure, blocks, raa, comments_on, ds_valid, built, fs, handles, pc, blocks_read, pkg_hdr, blk_post, exc, orig>>

\* a BEGIN line of a registered block: MFBlock.load is called with the file
\* positioned after the line, under one behaviour of the dataset loaders
ScanLoadBlock ==
    /\ Scanning
    /\ IsBeginLine(CurScanLine)
    /\ get_block_header_info(CurScanLine.toks).exc = "none"
    /\ \E lm \in LoaderModes, hdr \in {get_block_header_info(CurScanLine.toks).hdr} :
        /\ block_key_of(hdr.name) \in BlockSet
        /\ ~skip_block(blocks[block_key_of(hdr.name)], hdr.name)
        /\ \E r \in {MFBlock_load([pf |-> fs[PkgFile], fs |-> fs, bn |-> block_key_of(hdr.name),
                                   raa |-> raa, lm |-> lm],
                                  blocks[block_key_of(hdr.name)], hdr, pos + 1)} :
            LET bk == block_key_of(hdr.name)
                returned == r.st \in {"ok", "short", "dup", "transient"}
                \* blocks_read >= max_blocks: break, and load closes the file
                break == returned /\ blocks_read + 1 >= max_blocks
            IN /\ blocks' = [blocks EXCEPT ![bk] = r.b]
               /\ pos' = r.pp
               /\ handles' = [f \in FileNames |->
                                handles[f]
                                + (IF r.ex # None /\ r.ex[1].name = f THEN 1 ELSE 0)
                                - (IF f = PkgFile /\ (r.st = "ReadAsArraysException" \/ break)
                                   THEN 1 ELSE 0)]
               /\ blk_post' = IF returned THEN [blk_post EXCEPT ![bk] = Len(cmts) + 1] ELSE blk_post
               /\ blocks_read' = IF returned THEN blocks_read + 1 ELSE blocks_read
               /\ pc' = IF returned /\ ~break THEN "scan" ELSE IF r.st = "hang" THEN "hang" ELSE "idle"
               /\ exc' = IF returned \/ r.st = "hang" THEN exc ELSE r.st
               /\ last' = [NoLast EXCEPT !.op = "block_load", !.bn = bk, !.st = r.st, !.log = r.log,
                                         !.lines = <<CurScanLine>>, !.at = pos]
               /\ pure' = (pure /\ lm = "std")
    /\ found_first_block' = TRUE
    /\ cmts' = Append(cmts, <<>>)
    /\ post_ref' = Len(cmts) + 1
    /\ UNCHANGED <<max_blocks, raa, comments_on, ds_valid, built, fs, pkg_hdr, orig>>

\* readline returns '': the scan loop ends and load closes the file
LoadReturn ==
    /\ Scanning
    /\ CurScanLine = EOF
    /\ handles' = [handles EXCEPT ![PkgFile] = @ - 1]
    /\ pc' = "idle"
    /\ last' = [NoLast EXCEPT !.op = "load_return", !.at = pos]
    /\ UNCHANGED <<max_blocks, pure, blocks, raa, comments_on, ds_valid, built, fs, pos, found_first_block, blocks_read, pkg_hdr, cmts,
                   post_ref, blk_post, exc, orig>>

\* one more pass of the initial comment loop of MFBlock.load at end of file:
\* readline returns '' again, which counts as an empty line again
LoadSpin ==
    /\ pc = "hang"
    /\ last' = [NoLast EXCEPT !.op = "spin", !.bn = last.bn, !.at = last.at]
    /\ UNCHANGED <<max_blocks, blocks, raa, comments_on, ds_valid, built, pure, fs, handles, pc, pos,
                   found_first_block, blocks_read, pkg_hdr, cmts, post_ref, blk_post, exc, orig>>

\* --------------------------------------------------- construction and write
\* The values build_mfdata is given: a dictionary is a sequence of distinct
\* keys (its iteration order), each with the text of its value.
KeySeqs == {<<k>> : k \in 0..MaxKey}
           \cup {<<j, k>> : <<j, k>> \in {p \in (0..MaxKey) \X (0..MaxKey) : p[1] # p[2]}}

ValueOf(d) ==
    CASE d = "print" -> <<<<"PRINT">>>>
      [] d = "unit" -> <<<<"UNIT", "3">>>>
      [] d = "nper" -> <<<<"NPER", "2">>>>
      [] d = "flag" -> <<<<"FLAG">>>>
      [] d = "recs" -> <<<<"7", "7">>>>

DataChoices(d) ==
    IF DsStruct(d).repeating
    THEN {[i \in 1..Len(ks) |-> [key |-> ks[i], val |-> ValueOf(d)]] : ks \in KeySeqs}
    ELSE {<<[key |-> 0, val |-> ValueOf(d)]>>}

\* the order in which the package class calls build_mfdata
BuildOrder == <<"print", "unit", "nper", "flag", "recs">>

\* the header keys add_dataset builds for the data it is given: the keys of a
\* dictionary, key 0 for a list
RECURSIVE BuildHeaders(_, _, _, _)
BuildHeaders(bn, b, keys, i) ==
    IF i > Len(keys) THEN b
    ELSE BuildHeaders(bn, build_repeating_header(bn, b, keys[i]), keys, i + 1)

\* MFBlock.add_dataset
add_dataset(bn, b, d, data, form) ==
    LET nb == [b EXCEPT !.ds[d] = [data |-> data, enabled |-> TRUE]]
    IN IF DsStruct(d).kind \in {"list_transient", "list_multiple", "array_transient"}
       THEN IF form = "dict" THEN BuildHeaders(bn, nb, [i \in 1..Len(data) |-> data[i].key], 1)
            ELSE IF form = "list" THEN build_repeating_header(bn, nb, 0)
            ELSE nb
       ELSE nb

\* MFPackage.build_mfdata(var_name, data) with data that is not None
BuildMfdata ==
    /\ pc = "idle" /\ last.op \in {"none", "build"}
    /\ \E i \in (built + 1)..Len(BuildOrder), form \in {"dict", "list"} :
         \E data \in DataChoices(BuildOrder[i]) :
            LET d == BuildOrder[i]
                bn == DsStruct(d).block
            IN /\ form = "list" => DsStruct(d).kind = "list_transient" /\ Len(data) = 1 /\ data[1].key = 0
               /\ form = "dict" => ~(DsStruct(d).kind = "list_transient" /\ Len(data) = 1 /\ data[1].key = 0)
               /\ blocks' = [blocks EXCEPT ![bn] = add_dataset(bn, blocks[bn], d, data, form)]
               /\ built' = i
               /\ last' = [NoLast EXCEPT !.op = "build", !.bn = bn, !.st = d, !.lines = data]
    /\ UNCHANGED <<max_blocks, raa, comments_on, ds_valid, pure, fs, handles, pc, pos, found_first_block,
                   blocks_read, pkg_hdr, cmts, post_ref, blk_post, exc, orig>>

\* a call of MFPackage.is_valid() from outside
IsValid ==
    /\ pc = "idle" /\ last.op \in {"none", "build"} /\ exc = "none"
    /\ \E v \in {MFPackage_is_valid(blocks)} :
         /\ last' = [NoLast EXCEPT !.op = "is_valid", !.res = v.res, !.err = v.err]
         /\ exc' = IF v.res \in {"True", "False"} THEN "none" ELSE v.res
    /\ UNCHANGED <<max_blocks, blocks, raa, comments_on, ds_valid, built, pure, fs, handles, pc, pos,
                   found_first_block, blocks_read, pkg_hdr, cmts, post_ref, blk_post, orig>>

\* mfdata[blk_post_comment_path].text: '\n' until a load replaces the comment
PostText(bn) == IF blk_post[bn] = 0 THEN <<Line(<<>>)>> ELSE cmts[blk_post[bn]]

\* how the dataset serializers behave during one write
WriterModes == {"std", "raise"}

\* the loop of _write_blocks over self.blocks: [blocks, main, ext, st, leak];
\* ext maps an external file to the text it was last opened and filled with,
\* leak is the external file left open by an exception
RECURSIVE WriteBlocksFrom(_, _, _, _)
WriteBlocksFrom(bs, i, wm, acc) ==
    IF i > Len(BlockNames) THEN acc
    ELSE Bind(MFBlock_write(BlockNames[i], bs[BlockNames[i]], PostText(BlockNames[i]),
                            comments_on, wm), LAMBDA w :
           Bind([blocks |-> [acc.blocks EXCEPT ![BlockNames[i]] = w.b],
                 main |-> acc.main \o w.main,
                 ext |-> IF w.ext = None THEN acc.ext
                         ELSE [acc.ext EXCEPT ![w.b.ext[1]] = w.ext],
                 st |-> IF w.st = "skipped" THEN "ok" ELSE w.st,
                 leak |-> IF w.st \in {"ok", "skipped", "IndexError"} THEN None ELSE w.b.ext],
                LAMBDA nacc :
                  IF nacc.st # "ok" THEN nacc ELSE WriteBlocksFrom(bs, i + 1, wm, nacc)))

\* MFPackage.write: open the package file with 'w', _write_blocks, close
Write ==
    /\ pc = "idle" /\ exc = "none" /\ orig = None
    /\ last.op \in {"none", "build", "is_valid", "load_return"}
    /\ \E wm \in WriterModes, v \in {MFPackage_is_valid(blocks)} :
         IF v.res # "True"
         THEN /\ fs' = [fs EXCEPT ![PkgFile] = <<>>]
              /\ handles' = [handles EXCEPT ![PkgFile] = @ + 1]
              /\ exc' = IF v.res = "False" THEN "MFFileWriteException" ELSE v.res
              /\ last' = [NoLast EXCEPT !.op = "write", !.st = exc', !.res = v.res, !.err = v.err]
              /\ UNCHANGED <<blocks, orig, pure>>
         ELSE \E r \in {WriteBlocksFrom(blocks, 1, wm,
                           [blocks |-> blocks, main |-> CommentText(pkg_hdr, comments_on),
                            ext |-> [f \in ExtFiles |-> None], st |-> "ok", leak |-> None])} :
              /\ blocks' = r.blocks
              /\ fs' = [f \in FileNames |->
                          IF f = PkgFile THEN r.main
                          ELSE IF r.ext[f] # None THEN r.ext[f][1] ELSE fs[f]]
              /\ handles' = [f \in FileNames |->
                               handles[f] + (IF (f = PkgFile /\ r.st # "ok") \/ r.leak = Some(f)
                                             THEN 1 ELSE 0)]
              /\ exc' = IF r.st = "ok" THEN "none" ELSE r.st
              /\ orig' = IF r.st = "ok" THEN Some(r.blocks) ELSE None
              /\ pure' = (pure /\ wm = "std")
              /\ last' = [NoLast EXCEPT !.op = "write", !.st = r.st, !.res = v.res,
                                        !.lines = r.main]
    /\ UNCHANGED <<max_blocks, raa, comments_on, ds_valid, built, pc, pos, found_first_block, blocks_read,
                   pkg_hdr, cmts, post_ref, blk_post>>

\* MFPackage.load of the written file into a package that was just constructed
Reload ==
    /\ pc = "idle" /\ exc = "none" /\ last.op = "write" /\ orig # None
    /\ blocks' = FreshBlocks
    /\ blk_post' = [bn \in BlockSet |-> 0]
    /\ handles' = [handles EXCEPT ![PkgFile] = @ + 1]
    /\ pkg_hdr' = <<>>
    /\ cmts' = Append(cmts, <<>>)
    /\ post_ref' = Len(cmts) + 1
    /\ blocks_read' = 0
    /\ found_first_block' = FALSE
    /\ pos' = 1
    /\ pc' = "scan"
    /\ last' = [NoLast EXCEPT !.op = "reload"]
    /\ UNCHANGED <<max_blocks, raa, comments_on, ds_valid, built, pure, fs, exc, orig>>

\* ------------------------------------------------------- scanned input files
Blk(name, args, body) ==
    <<Line(<<"BEGIN", name>> \o args)>> \o body \o <<Line(<<"END", name>> \o args)>>

\* the text of an external file that an input file redirects a block into
ExtText == <<ILine(<<"PRINT">>), ILine(<<"UNIT", "3">>)>>

\* the pieces input files are made of
Segments ==
    { Blk("options", <<>>, <<ILine(<<"PRINT">>), ILine(<<"foo", "bar">>)>>),
      Blk("options", <<>>, <<ILine(<<"UNIT", "3">>), ILine(<<"ReadAsArrays">>)>>),
      Blk("OPTIONS", <<>>, <<ILine(<<"#", "c">>), ILine(<<"READASARRAYS">>)>>),
      Blk("options", <<>>, <<ILine(<<"OPEN/CLOSE", "F">>)>>),
      Blk("options", <<>>, <<>>),
      Blk("dims", <<>>, <<ILine(<<"NPER", "2">>), ILine(<<"#", "c">>)>>),
      Blk("period", <<"1">>, <<ILine(<<"FLAG">>), ILine(<<"7", "7">>)>>),
      Blk("period", <<"01">>, <<ILine(<<"8", "8">>)>>),
      Blk("period", <<"2">>, <<ILine(<<"open/close", "G">>)>>),
      Blk("period", <<>>, <<ILine(<<"FLAG">>)>>),
      Blk("bogus", <<>>, <<ILine(<<"x", "y", "z">>), ILine(<<"ab", "1">>), ILine(<<"x", "y", "z">>)>>),
      Blk("bogus", <<>>, <<ILine(<<"x", "y", "z">>), Line(<<>>)>>),
      <<Line(<<"#", "c">>)>>,
      <<Line(<<"junk", "text">>)>>,
      <<Line(<<"BEGIN">>)>>,
      <<Line(<<"BEGIN", "dims">>), ILine(<<"#", "c">>)>> }

RECURSIVE FilesUpTo(_)
FilesUpTo(n) ==
    IF n = 0 THEN {<<>>}
    ELSE LET shorter == FilesUpTo(n - 1)
         IN shorter \cup {f \o g : f \in shorter, g \in Segments}

InputFiles == FilesUpTo(MaxBlocks)

\* --------------------------------------------------------- the load machine
\* sys.maxsize, the default of max_blocks (the largest integer of the model)
MaxSize == 2147483647

InitCommon ==
    /\ blocks = FreshBlocks
    /\ built = 0
    /\ pure = TRUE
    /\ handles = [f \in FileNames |-> 0]
    /\ pc = "idle"
    /\ pos = 1
    /\ found_first_block = FALSE
    /\ blocks_read = 0
    /\ pkg_hdr = <<>>
    /\ cmts = <<>>
    /\ post_ref = 0
    /\ blk_post = [bn \in BlockSet |-> 0]
    /\ exc = "none"
    /\ last = NoLast
    /\ orig = None

Init ==
    /\ InitCommon
    /\ max_blocks = MaxSize
    /\ raa \in BOOLEAN
    /\ comments_on \in BOOLEAN
    /\ ds_valid = TRUE
    /\ \E f \in InputFiles : fs = [n \in FileNames |-> IF n = PkgFile THEN f ELSE ExtText]

Next ==
    \/ StartLoad
    \/ ScanComment
    \/ ScanStray
    \/ ScanBadHeader
    \/ ScanUnknownBlock
    \/ ScanSkipDuplicate
    \/ ScanLoadBlock
    \/ LoadReturn
    \/ LoadSpin
    \/ Write
    \/ Reload

Spec == Init /\ [][Next]_vars

\* ----------------------------------------------------- the round-trip machine
\* A package is constructed, given data, asked for its validity, written, and
\* the written file is loaded into a fresh package.
InitRT ==
    /\ InitCommon
    /\ max_blocks = MaxSize
    /\ raa = FALSE
    /\ comments_on \in BOOLEAN
    /\ ds_valid \in BOOLEAN
    /\ fs = [n \in FileNames |-> IF n = PkgFile THEN <<>> ELSE ExtText]

NextRT ==
    \/ BuildMfdata
    \/ IsValid
    \/ Write
    \/ Reload
    \/ ScanComment
    \/ ScanStray
    \/ ScanLoadBlock
    \/ LoadReturn

SpecRT == InitRT /\ [][NextRT]_vars


\* ------------------------------------------------------------- properties
HeaderKeys(b) == [i \in 1..Len(b.headers) |-> get_transient_key(b.headers[i])]
Entries(dset) == {dset.data[i] : i \in 1..Len(dset.data)}

\* a written package file was loaded into a fresh package to its end, and
\* every dataset loader and serializer behaved as documented
RoundTripDone == last.op = "load_return" /\ orig # None /\ pure

\* C1: write followed by load into a fresh package yields the same set of
\* enabled blocks, the same sequence of header transient keys for each block,
\* and the same dataset values (as sets of entries) as the written package.
C1_RoundTrip ==
    RoundTripDone =>
        \A bn \in BlockSet :
            /\ blocks[bn].enabled = orig[1][bn].enabled
            /\ HeaderKeys(blocks[bn]) = HeaderKeys(orig[1][bn])
            /\ \A d \in DOMAIN blocks[bn].ds :
                  Entries(blocks[bn].ds[d]) = Entries(orig[1][bn].ds[d])

\* C2: no two headers of a repeating block return the same transient key.
C2_RepeatKeyUnique ==
    \A bn \in BlockSet :
        Repeating(bn) =>
            \A i, j \in 1..Len(blocks[bn].headers) :
                i # j => get_transient_key(blocks[bn].headers[i])
                         # get_transient_key(blocks[bn].headers[j])

\* C3: a header loaded with the integer argument k >= 1 stores k-1 and its
\* BEGIN and END lines show k again; a header synthesized for key k-1 stores
\* k-1 and shows k, and add_dataset synthesizes one for every key it is given.
LoadedIntHeader(bn, h) ==
    /\ BlockHdrStruct(bn) = <<"integer">>
    /\ Len(h.vs) = 1 /\ IsIntTok(h.vs[1]) /\ ParseInt(h.vs[1]) >= 1
    /\ Len(h.items) > 0

SynthesizedHeader(bn, h) ==
    /\ BlockHdrStruct(bn) = <<"integer">>
    /\ h.vs = <<>> /\ Len(h.items) > 0 /\ h.items[1].data # None

ShowsKey(h, k) ==
    /\ write_header(h).toks = <<"BEGIN", h.name, FmtInt(k)>>
    /\ write_footer(h).toks = <<"END", h.name, FmtInt(k)>>

C3_OneBased ==
    /\ \A bn \in BlockSet : \A i \in 1..Len(blocks[bn].headers) :
          LET h == blocks[bn].headers[i]
          IN /\ LoadedIntHeader(bn, h) =>
                    /\ h.items[1].data = Some(ParseInt(h.vs[1]) - 1)
                    /\ get_transient_key(h) = Some(ParseInt(h.vs[1]) - 1)
                    /\ ShowsKey(h, ParseInt(h.vs[1]))
             /\ SynthesizedHeader(bn, h) => ShowsKey(h, h.items[1].data[1] + 1)
    /\ (last.op = "build" /\ DsStruct(last.st).kind = "list_transient") =>
          \A e \in 1..Len(last.lines) :
             \E i \in 1..Len(blocks[last.bn].headers) :
                /\ SynthesizedHeader(last.bn, blocks[last.bn].headers[i])
                /\ get_transient_key(blocks[last.bn].headers[i]) = Some(last.lines[e].key)

C3_Witness ==
    /\ RoundTripDone
    /\ \E i \in 1..Len(blocks["period"].headers) :
          /\ LoadedIntHeader("period", blocks["period"].headers[i])
          /\ blocks["period"].headers[i].vs = <<"2">>
          /\ get_transient_key(blocks["period"].headers[i]) = Some(1)
    /\ \E i \in 1..Len(orig[1]["period"].headers) :
          /\ SynthesizedHeader("period", orig[1]["period"].headers[i])
          /\ get_transient_key(orig[1]["period"].headers[i]) = Some(1)

\* the first line from index j on that starts with END, Len(f) + 1 if none
RECURSIVE BodyEnd(_, _)
BodyEnd(f, j) ==
    IF j > Len(f) THEN j
    ELSE IF IsEndToks(f[j].toks) THEN j
    ELSE BodyEnd(f, j + 1)

\* C4: a multi-dataset block whose body is a keyword line followed by a line
\* without keyword: the first line goes to the loader of the keyword's
\* dataset and the second line ends up in the block's trailing comment,
\* whatever pair the loader returns.
C4_Case ==
    /\ last.op = "block_load" /\ last.st = "ok"
    /\ Len(BlockDs(last.bn)) > 1
    /\ blocks[last.bn].ext = None
    /\ Len(fs[PkgFile]) >= last.at + 3
    /\ BodyEnd(fs[PkgFile], last.at + 1) = last.at + 3
    /\ find_keyword(fs[PkgFile][last.at + 1].toks, KwSet(last.bn)) # None
    /\ fs[PkgFile][last.at + 2].toks # <<>>
    /\ find_keyword(fs[PkgFile][last.at + 2].toks, KwSet(last.bn)) = None

C4_KeywordOrder ==
    C4_Case =>
        /\ Len(last.log) >= 1
        /\ last.log[1] = [ds |-> KwDs(last.bn, find_keyword(fs[PkgFile][last.at + 1].toks,
                                                            KwSet(last.bn))[1]),
                          toks |-> fs[PkgFile][last.at + 1].toks]
        /\ \E i \in 1..Len(blocks[last.bn].trail) :
              blocks[last.bn].trail[i] = fs[PkgFile][last.at + 2].toks

\* C5: a block with an external file name writes an open/close line for it
\* into the package file, and loading the written files into a fresh package
\* gives the block the same external file name and the same dataset contents.
C5_ExternalSymmetry ==
    /\ (last.op = "write" /\ last.st = "ok" /\ pure) =>
          \A bn \in BlockSet :
             (blocks[bn].ext # None /\ ~is_empty(blocks[bn])) =>
                \E j \in 2..Len(fs[PkgFile]) :
                   /\ fs[PkgFile][j].toks = <<"open/close", blocks[bn].ext[1]>>
                   /\ fs[PkgFile][j - 1].toks[1] = "BEGIN"
                   /\ j < Len(fs[PkgFile]) /\ fs[PkgFile][j + 1].toks[1] = "END"
    /\ RoundTripDone =>
          \A bn \in BlockSet :
             orig[1][bn].ext # None =>
                /\ blocks[bn].ext = orig[1][bn].ext
                /\ \A d \in DOMAIN blocks[bn].ds :
                      Entries(blocks[bn].ds[d]) = Entries(orig[1][bn].ds[d])

\* the END line that closes the block opened at line a: the first later line
\* 'END <name>', 0 if the file has none
RECURSIVE MatchingEnd(_, _, _)
MatchingEnd(f, j, name) ==
    IF j > Len(f) THEN 0
    ELSE IF Len(f[j].toks) >= 2 /\ Lower(f[j].toks[1]) = "end" /\ Lower(f[j].toks[2]) = name THEN j
    ELSE MatchingEnd(f, j + 1, name)

IsSuffix(t, u) == Len(t) <= Len(u) /\ SubSeq(u, Len(u) - Len(t) + 1, Len(u)) = t

\* C6: an unknown block raises nothing and every line from its BEGIN line
\* through its END line is stored, in file order, in the package's comment
\* text; the scan goes on at the line after the END line.
C6_UnknownBlock ==
    (last.op = "unknown" /\ MatchingEnd(fs[PkgFile], last.at + 1, last.bn) # 0) =>
        LET e == MatchingEnd(fs[PkgFile], last.at + 1, last.bn)
            text == IF found_first_block THEN cmts[post_ref] ELSE pkg_hdr
        IN /\ exc = "none"
           /\ pos = e + 1
           /\ IsSuffix(SubSeq(fs[PkgFile], last.at, e), text)

\* a block that was never loaded and never given data
NeverUsed(b) == ~b.loaded /\ is_empty(b)

\* C7: with a block that has a non-optional dataset, was never loaded or
\* populated and is allowed, MFPackage.is_valid() answers False and
\* last_error names the block.
C7_ValidityGating ==
    (last.op = "is_valid"
     /\ \E bn \in BlockSet : NumNonOptData(bn) > 0 /\ NeverUsed(blocks[bn]) /\ is_allowed(bn))
    => /\ last.res = "False"
       /\ last.err # None
       /\ NumNonOptData(last.err[1]) > 0 /\ NeverUsed(blocks[last.err[1]])

\* the block validity rule: no non-optional dataset or header item disabled,
\* no enabled dataset or header item reporting invalid
BlockValidityRule(b, ok) ==
    /\ \A d \in DOMAIN b.ds : (DsStruct(d).optional \/ b.ds[d].enabled) /\ (b.ds[d].enabled => ok)
    /\ \A i \in 1..Len(b.headers) : \A j \in 1..Len(b.headers[i].items) :
          b.headers[i].items[j].enabled /\ ok

\* C8: write emits text only when every enabled block satisfies the block
\* validity rule; otherwise MFFileWriteException is raised and nothing is
\* written.
C8_WritePrecondition ==
    (last.op = "write"
     /\ \E bn \in BlockSet : blocks[bn].enabled /\ ~BlockValidityRule(blocks[bn], ds_valid))
    => exc = "MFFileWriteException" /\ fs[PkgFile] = <<>>

\* C9: between operations no external file is open: what MFBlock.load and
\* _write_block opened they closed, on every exit path.
C9_ScopedHandles == \A f \in ExtFiles : handles[f] = 0

\* C10: an options block with a line that matches no keyword and starts with
\* readasarrays, in a package that is not read_as_arrays: load raises
\* ReadAsArraysException, the package file is closed and the load is over.
C10_Case ==
    /\ last.op = "block_load" /\ last.bn = "options" /\ ~raa
    /\ last.st \notin {"transient", "MFDataException"}
    /\ \E j \in (last.at + 1)..(BodyEnd(fs[PkgFile], last.at + 1) - 1) :
          /\ fs[PkgFile][j].toks # <<>>
          /\ find_keyword(fs[PkgFile][j].toks, KwSet("options")) = None
          /\ Lower(fs[PkgFile][j].toks[1]) = "readasarrays"

C10_FatalMismatch ==
    C10_Case => exc = "ReadAsArraysException" /\ handles[PkgFile] = 0 /\ pc = "idle"


\* C11: a non-repeating block has exactly one entry in block_headers in every
\* state; block_headers is never empty.
C11_HeaderCount ==
    \A bn \in BlockSet : ~Repeating(bn) => Len(blocks[bn].headers) = 1


\* The load machine under the scheduling of a sequential program: a step
\* that can be taken is taken.
SpecLive == Init /\ [][Next]_vars /\ WF_vars(Next)

\* C12: a load that was started eventually returns or raises, whatever the
\* file holds; it does not read the end of the file for ever.
C12_Terminates == (pc = "scan") ~> (pc = "idle")


\* the scan is at a BEGIN line that resolves to a block that is loaded
AtLoadedBlock(bk) ==
    /\ Scanning /\ IsBeginLine(CurScanLine)
    /\ get_block_header_info(CurScanLine.toks).exc = "none"
    /\ bk = block_key_of(get_block_header_info(CurScanLine.toks).hdr.name)
    /\ blocks[bk].loaded

\* C13: at a BEGIN line of a loaded block the scan calls MFBlock.load exactly
\* when the block is repeating; otherwise the block is left as it is, no line
\* is read and nothing is raised, and the scan goes on with the next line.
C13_DuplicateBlock ==
    [][\A bk \in BlockSet :
          AtLoadedBlock(bk) =>
             IF Repeating(bk)
             THEN last'.op = "block_load" /\ last'.bn = bk
             ELSE /\ last'.op = "skip"
                  /\ blocks' = blocks
                  /\ pos' = pos + 1 /\ pc' = "scan" /\ exc' = exc
                  /\ handles' = handles]_vars

C13_Witness ==
    /\ last.op = "skip"
    /\ ~Repeating(last.bn) /\ blocks[last.bn].loaded /\ ~is_empty(blocks[last.bn])


\* ------------------------------------------------- calls of single methods
\* A method is called on an object built from a small set of field values:
\* last holds the call (op = "call", bn = the method, lines = the arguments)
\* and then its result (op = "result", res = what it returned or raised).
Call(fn, args) == [NoLast EXCEPT !.op = "call", !.bn = fn, !.lines = args]
Result(res) == [last EXCEPT !.op = "result", !.res = res]

\* headers for is_same_header: the type of the first header variable ("none"
\* for a header without data items) and the variable_strings
HeaderArgStrings == {<<>>, <<"1">>, <<"01">>, <<"2">>}
HeaderItemTypes == {"none", "integer", "double", "string"}

HeaderOf(type, vs) ==
    [MFBlockHeader("period", vs, <<>>) EXCEPT
        !.items = IF type = "none" THEN <<>>
                  ELSE <<HdrItem(type, IF vs = <<>> THEN Some(0) ELSE Some(StoredKey(vs[1])))>>]

SameHeaderCalls ==
    {Call("is_same_header", [self |-> HeaderOf(t, v), other |-> HeaderOf("none", w)]) :
        t \in HeaderItemTypes, v \in HeaderArgStrings, w \in HeaderArgStrings}

ApplySameHeader ==
    /\ last.op = "call" /\ last.bn = "is_same_header"
    /\ last' = Result(is_same_header(last.lines.self, last.lines.other))
    /\ UNCHANGED <<max_blocks, blocks, raa, comments_on, ds_valid, built, pure, fs, handles, pc, pos,
                   found_first_block, blocks_read, pkg_hdr, cmts, post_ref, blk_post, exc, orig>>

\* blocks for is_valid: every dataset and every header data item of the block
\* enabled or not; ok is what the items' is_valid() answers
BlockWith(bn, off, hen) ==
    [MFBlock(bn) EXCEPT
        !.ds = [d \in DOMAIN @ |-> [@[d] EXCEPT !.enabled = d \notin off]],
        !.headers = [i \in DOMAIN @ |->
                       [@[i] EXCEPT !.items = [j \in DOMAIN @ |-> [@[j] EXCEPT !.enabled = hen]]]]]

IsValidCalls ==
    {Call("is_valid", [bn |-> bn, b |-> BlockWith(bn, off, hen), ok |-> ok]) :
        bn \in BlockSet, off \in SUBSET DsNames, hen \in BOOLEAN, ok \in BOOLEAN}

ApplyIsValid ==
    /\ last.op = "call" /\ last.bn = "is_valid"
    /\ last' = Result(MFBlock_is_valid(last.lines.bn, last.lines.b, last.lines.ok))
    /\ UNCHANGED <<max_blocks, blocks, raa, comments_on, ds_valid, built, pure, fs, handles, pc, pos,
                   found_first_block, blocks_read, pkg_hdr, cmts, post_ref, blk_post, exc, orig>>

\* dependencies for is_allowed: the rule of the block structure and what the
\* data store holds under the dependency's path
DepPredicates == {"Exists", ">", "<", "=="}
DepValues == {"true", "True", "false", "1"}
DepStore == {None} \cup {Some(n) : n \in 0..2}

IsAllowedCalls ==
    {Call("is_allowed", [dep |-> dep, var |-> var]) :
        dep \in {None} \cup {Some([pred |-> p, val |-> v]) : p \in DepPredicates, v \in DepValues},
        var \in DepStore}

ApplyIsAllowed ==
    /\ last.op = "call" /\ last.bn = "is_allowed"
    /\ last' = Result(MFBlock_is_allowed(last.lines.dep, last.lines.var))
    /\ UNCHANGED <<max_blocks, blocks, raa, comments_on, ds_valid, built, pure, fs, handles, pc, pos,
                   found_first_block, blocks_read, pkg_hdr, cmts, post_ref, blk_post, exc, orig>>

\* blocks for _build_repeating_header: the header list a repeating block has
\* after construction (one header without value) or one or two headers that
\* carry a key, and the key asked for
HeaderKeyLists ==
    {<<None>>} \cup {<<Some(j)>> : j \in 0..2} \cup {<<Some(j), Some(k)>> : j \in 0..2, k \in 0..2}

BuildHeaderCalls ==
    {Call("build_repeating_header",
          [b |-> [MFBlock("period") EXCEPT
                    !.headers = [i \in 1..Len(ks) |->
                                   [MFBlockHeader("period", <<>>, <<>>) EXCEPT
                                      !.items = <<HdrItem("integer", ks[i])>>]]],
           key |-> key]) : ks \in HeaderKeyLists, key \in 0..2}

ApplyBuildHeader ==
    /\ last.op = "call" /\ last.bn = "build_repeating_header"
    /\ last' = Result(build_repeating_header("period", last.lines.b, last.lines.key))
    /\ UNCHANGED <<max_blocks, blocks, raa, comments_on, ds_valid, built, pure, fs, handles, pc, pos,
                   found_first_block, blocks_read, pkg_hdr, cmts, post_ref, blk_post, exc, orig>>

\* block tables for the name resolution: which numbered aliases of the
\* name are keys of self.blocks and which of those are allowed
AliasKeys == {Alias("dims", k) : k \in 1..3}

ResolveCalls ==
    {Call("resolve_block_key", [name |-> n, reg |-> t[1] \cup {"dims"}, ok |-> t[2]]) :
        n \in {"dims", "bogus"},
        t \in {q \in (SUBSET AliasKeys) \X (SUBSET AliasKeys) : q[2] \subseteq q[1]}}

ApplyResolve ==
    /\ last.op = "call" /\ last.bn = "resolve_block_key"
    /\ last' = Result(resolve_block_key(last.lines.name, last.lines.reg, last.lines.ok))
    /\ UNCHANGED <<max_blocks, blocks, raa, comments_on, ds_valid, built, pure, fs, handles, pc, pos,
                   found_first_block, blocks_read, pkg_hdr, cmts, post_ref, blk_post, exc, orig>>

\* BEGIN lines for _get_block_header_info: a name and up to three more tokens
HeaderTokens == {"1", "a", "#c", "//"}
HeaderLineCalls ==
    {Call("get_block_header_info", <<"BEGIN", "period">> \o args) :
        args \in {<<>>} \cup {<<t>> : t \in HeaderTokens}
                 \cup {<<t, u>> : t \in HeaderTokens, u \in HeaderTokens}
                 \cup {<<t, u, v>> : t \in HeaderTokens, u \in HeaderTokens, v \in HeaderTokens}}

ApplyHeaderInfo ==
    /\ last.op = "call" /\ last.bn = "get_block_header_info"
    /\ last' = Result(get_block_header_info(last.lines))
    /\ UNCHANGED <<blocks, raa, comments_on, ds_valid, built, max_blocks, pure, fs, handles, pc, pos,
                   found_first_block, blocks_read, pkg_hdr, cmts, post_ref, blk_post, exc, orig>>

\* MFBlock.data_factory: the class of the data holder it returns, "None" when
\* no branch of the method matches the data type
data_factory(kind) ==
    CASE kind \in {"scalar_keyword", "scalar"} -> "MFScalar"
      [] kind \in {"scalar_keyword_transient", "scalar_transient"} -> "MFScalarTransient"
      [] kind = "array" -> "MFArray"
      [] kind = "array_transient" -> "MFTransientArray"
      [] kind = "list" -> "MFList"
      [] kind = "list_transient" -> "MFTransientList"
      [] kind = "list_multiple" -> "MFMultipleList"
      [] OTHER -> "None"

FactoryCalls ==
    {Call("data_factory", kind) :
        kind \in {"scalar_keyword", "scalar", "scalar_keyword_transient", "scalar_transient",
                  "array", "array_transient", "list", "list_transient", "list_multiple",
                  "record", "keyword"}}

ApplyFactory ==
    /\ last.op = "call" /\ last.bn = "data_factory"
    /\ last' = Result(data_factory(last.lines))
    /\ UNCHANGED <<blocks, raa, comments_on, ds_valid, built, max_blocks, pure, fs, handles, pc, pos,
                   found_first_block, blocks_read, pkg_hdr, cmts, post_ref, blk_post, exc, orig>>

InitFn ==
    /\ blocks = FreshBlocks /\ built = 0 /\ pure = TRUE /\ max_blocks = MaxSize
    /\ raa = FALSE /\ comments_on = FALSE /\ ds_valid = TRUE
    /\ fs = [n \in FileNames |-> <<>>]
    /\ handles = [f \in FileNames |-> 0]
    /\ pc = "idle" /\ pos = 1 /\ found_first_block = FALSE /\ blocks_read = 0
    /\ pkg_hdr = <<>> /\ cmts = <<>> /\ post_ref = 0
    /\ blk_post = [bn \in BlockSet |-> 0]
    /\ exc = "none" /\ orig = None
    /\ last \in SameHeaderCalls \cup IsValidCalls \cup IsAllowedCalls \cup BuildHeaderCalls
                \cup ResolveCalls \cup HeaderLineCalls \cup FactoryCalls

NextFn ==
    \/ ApplySameHeader
    \/ ApplyIsValid
    \/ ApplyIsAllowed
    \/ ApplyBuildHeader
    \/ ApplyResolve
    \/ ApplyHeaderInfo
    \/ ApplyFactory

SpecFn == InitFn /\ [][NextFn]_vars

\* C14: is_same_header answers True only for a numeric first header variable
\* with equal first arguments; it answers False for a header without data
\* items, for another header without arguments and for a non-numeric type.
IsNumericHeader(h) == Len(h.items) > 0 /\ h.items[1].type \in {"integer", "double"}

C14_SameHeader ==
    (last.op = "result" /\ last.bn = "is_same_header") =>
        LET self == last.lines.self
            other == last.lines.other
        IN /\ last.res = "True" =>
                 /\ IsNumericHeader(self)
                 /\ self.vs # <<>> /\ other.vs # <<>> /\ self.vs[1] = other.vs[1]
           /\ (Len(self.items) = 0 \/ other.vs = <<>> \/ ~IsNumericHeader(self)) =>
                 last.res = "False"


\* C15: a call of MFBlock.load with fewer header arguments than the block's
\* non-optional header data returns without reading a line of the file and
\* leaves block_headers, the datasets, enabled, loaded and external_file_name
\* as they were.
ShortHeaderAt(bk) ==
    /\ Scanning /\ IsBeginLine(CurScanLine)
    /\ get_block_header_info(CurScanLine.toks).exc = "none"
    /\ bk = block_key_of(get_block_header_info(CurScanLine.toks).hdr.name)
    /\ ~skip_block(blocks[bk], get_block_header_info(CurScanLine.toks).hdr.name)
    /\ Len(get_block_header_info(CurScanLine.toks).hdr.vs) < NumNonOptHdr(bk)

C15_HeaderShortfall ==
    [][\A bk \in BlockSet :
          ShortHeaderAt(bk) =>
             /\ last'.op = "block_load" /\ last'.bn = bk /\ last'.st = "short"
             /\ pos' = pos + 1
             /\ blocks'[bk].headers = blocks[bk].headers
             /\ blocks'[bk].ds = blocks[bk].ds
             /\ blocks'[bk].enabled = blocks[bk].enabled
             /\ blocks'[bk].loaded = blocks[bk].loaded
             /\ blocks'[bk].ext = blocks[bk].ext
             /\ handles' = handles]_vars

C15_Witness ==
    /\ last.op = "block_load" /\ last.st = "short"
    /\ blocks[last.bn].loaded /\ ~is_empty(blocks[last.bn])
    /\ pos = last.at + 1


\* C16: a call of MFBlock.load on a loaded block with a header that
\* is_same_header reports as a duplicate of a registered one returns leaving
\* block_headers, every dataset value and the trailing comment as they were:
\* the instance is neither added nor merged.
DuplicateHeaderAt(bk) ==
    /\ Scanning /\ IsBeginLine(CurScanLine)
    /\ get_block_header_info(CurScanLine.toks).exc = "none"
    /\ bk = block_key_of(get_block_header_info(CurScanLine.toks).hdr.name)
    /\ ~skip_block(blocks[bk], get_block_header_info(CurScanLine.toks).hdr.name)
    /\ Len(get_block_header_info(CurScanLine.toks).hdr.vs) >= NumNonOptHdr(bk)
    /\ blocks[bk].loaded
    /\ \E i \in 1..Len(blocks[bk].headers) :
          /\ is_same_header(blocks[bk].headers[i], get_block_header_info(CurScanLine.toks).hdr) = "True"
          /\ \A j \in 1..(i - 1) :
                is_same_header(blocks[bk].headers[j], get_block_header_info(CurScanLine.toks).hdr) = "False"

C16_DuplicateDropped ==
    [][\A bk \in BlockSet :
          DuplicateHeaderAt(bk) =>
             /\ last'.op = "block_load" /\ last'.bn = bk /\ last'.st = "dup"
             /\ blocks'[bk].headers = blocks[bk].headers
             /\ blocks'[bk].ds = blocks[bk].ds
             /\ blocks'[bk].trail = blocks[bk].trail
             /\ blocks'[bk].ext = blocks[bk].ext
             /\ pos' = pos + 1]_vars

C16_Witness ==
    /\ last.op = "block_load" /\ last.st = "dup"
    /\ blocks[last.bn].loaded /\ ~is_empty(blocks[last.bn])
    /\ Len(blocks[last.bn].headers) >= 1
    /\ pos = last.at + 1


\* C17: MFBlock.is_valid() answers a true value exactly when the block meets
\* the block validity rule (every non-optional dataset and header data item
\* enabled, every enabled one reporting itself valid), a false value otherwise.
C17_BlockIsValid ==
    (last.op = "result" /\ last.bn = "is_valid") =>
        ((last.res = "True") <=> BlockValidityRule(last.lines.b, last.lines.ok))


\* C18: MFBlock.is_allowed() answers True without a dependency; with the rule
\* ('Exists', 'true') True exactly when the referenced value is in the data
\* store, with ('Exists', 'false') exactly when it is not; with '>' or '<' the
\* comparison of the value with the threshold, and False without a value; and
\* never True for a predicate it does not support.
C18_IsAllowed ==
    (last.op = "result" /\ last.bn = "is_allowed") =>
        LET dep == last.lines.dep
            var == last.lines.var
        IN IF dep = None THEN last.res = "True"
           ELSE IF dep[1].pred = "Exists" /\ Lower(dep[1].val) = "true"
           THEN last.res = BoolStr(var # None)
           ELSE IF dep[1].pred = "Exists" /\ Lower(dep[1].val) = "false"
           THEN last.res = BoolStr(var = None)
           ELSE IF dep[1].pred \in {">", "<"}
           THEN /\ var = None => last.res = "False"
                /\ (var # None /\ IsIntTok(dep[1].val)) =>
                      last.res = BoolStr(IF dep[1].pred = ">"
                                         THEN var[1] > ParseInt(dep[1].val)
                                         ELSE var[1] < ParseInt(dep[1].val))
           ELSE IF dep[1].pred = "Exists" THEN TRUE
           ELSE last.res # "True"


\* the BEGIN / END lines of block bn in the text of a file
HeadLines(f, word, bn) ==
    {i \in 1..Len(f) : /\ ~f[i].ind /\ Len(f[i].toks) >= 2
                       /\ f[i].toks[1] = word /\ Lower(f[i].toks[2]) = bn}

\* C19: MFBlock.write writes nothing for a block none of whose datasets has
\* data unless the block is named options or exchanges; in every other case
\* it writes at least one BEGIN/END pair.  (Stated with comments off, for a
\* write that passed the validity test and whose serializers did not raise.)
C19_WriteSkipRule ==
    (last.op = "write" /\ last.res = "True" /\ last.st # "MFDataException" /\ ~comments_on) =>
        \A bn \in BlockSet :
            IF is_empty(blocks[bn]) /\ Lower(bn) \notin {"options", "exchanges"}
            THEN HeadLines(last.lines, "BEGIN", bn) = {} /\ HeadLines(last.lines, "END", bn) = {}
            ELSE HeadLines(last.lines, "BEGIN", bn) # {} /\ HeadLines(last.lines, "END", bn) # {}


\* the BEGIN and END lines of block bn in a text, in file order
PairLines(f, bn) ==
    SelectSeq(f, LAMBDA l : /\ ~l.ind /\ Len(l.toks) >= 2
                            /\ l.toks[1] \in {"BEGIN", "END"} /\ Lower(l.toks[2]) = bn)

\* the k-th line of block bn in a text that starts with word
NthHead(f, word, bn, k) ==
    CHOOSE i \in HeadLines(f, word, bn) :
        Cardinality({j \in HeadLines(f, word, bn) : j < i}) = k - 1

RECURSIVE HeaderPairs(_)
HeaderPairs(hs) ==
    IF hs = <<>> THEN <<>>
    ELSE <<write_header(hs[1]), write_footer(hs[1])>> \o HeaderPairs(Tail(hs))

Contains(text, part) ==
    \E s \in 1..(Len(text) + 1) :
        s + Len(part) - 1 <= Len(text) /\ SubSeq(text, s, s + Len(part) - 1) = part

WasWritten(bn) == ~(is_empty(blocks[bn]) /\ Lower(bn) \notin {"options", "exchanges"})

\* C20: a written repeating block has one BEGIN/END pair per entry of
\* block_headers, in list order, and each pair holds the entry of every
\* repeating dataset for the transient key of its header (in the package file
\* or in the external file the pair names); a written non-repeating block has
\* exactly one pair.  (Stated with comments off, for a write that ended
\* without exception.)
C20_EmissionCount ==
    (last.op = "write" /\ last.st = "ok" /\ ~comments_on) =>
        \A bn \in BlockSet : WasWritten(bn) =>
            IF Repeating(bn)
            THEN /\ PairLines(last.lines, bn) = HeaderPairs(blocks[bn].headers)
                 /\ \A k \in 1..Len(blocks[bn].headers) :
                      \A n \in 1..Len(RepeatingDatasets(bn)) :
                         LET d == RepeatingDatasets(bn)[n]
                             h == blocks[bn].headers[k]
                             entry == FileEntry(blocks[bn].ds[d], d, get_transient_key(h))
                             text == IF blocks[bn].ext = None
                                     THEN SubSeq(last.lines, NthHead(last.lines, "BEGIN", bn, k) + 1,
                                                 NthHead(last.lines, "END", bn, k) - 1)
                                     ELSE fs[blocks[bn].ext[1]]
                         IN Contains(text, entry)
            ELSE /\ Len(PairLines(last.lines, bn)) = 2
                 /\ PairLines(last.lines, bn)[1].toks[1] = "BEGIN"
                 /\ PairLines(last.lines, bn)[2].toks[1] = "END"


\* C21: after MFBlock.write ran _add_missing_block_headers for every
\* repeating dataset, every key of every repeating dataset's active key list
\* has an entry of block_headers whose transient key is that key.
C21_SynthesisCoverage ==
    (last.op = "write" /\ last.st = "ok") =>
        \A bn \in BlockSet : Repeating(bn) =>
            \A n \in 1..Len(RepeatingDatasets(bn)) :
                \A k \in 1..Len(ActiveKeys(blocks[bn].ds[RepeatingDatasets(bn)[n]])) :
                    header_exists(blocks[bn], ActiveKeys(blocks[bn].ds[RepeatingDatasets(bn)[n]])[k])

\* a write that synthesized headers: the keyword dataset holds two keys, one
\* of which add_dataset built no header for
C21_Witness ==
    /\ last.op = "write" /\ last.st = "ok"
    /\ Len(blocks["period"].ds["flag"].data) = 2
    /\ \E k \in 1..2 :
          EntryAt(blocks["period"].ds["recs"].data, blocks["period"].ds["flag"].data[k].key, 1) = None
    /\ has_data(blocks["period"].ds["recs"])
    /\ Len(blocks["period"].headers) >= 2


\* C22: _build_repeating_header never changes the transient key of a header
\* that carries a value: it rewrites the last header only when that header
\* carries no value and appends a header otherwise, so the headers that carry
\* a key keep it, and a call for a key that has a header changes nothing.
C22_NoOverwrite ==
    (last.op = "result" /\ last.bn = "build_repeating_header") =>
        LET old == last.lines.b.headers
            new == last.res.headers
        IN /\ Len(new) >= Len(old)
           /\ \A i \in 1..Len(old) :
                 get_transient_key(old[i]) # None => get_transient_key(new[i]) = get_transient_key(old[i])
           /\ header_exists(last.lines.b, last.lines.key) => last.res = last.lines.b
           /\ ~header_exists(last.lines.b, last.lines.key) =>
                 /\ get_transient_key(Last(new)) = Some(last.lines.key)
                 /\ IF get_transient_key(Last(old)) = None
                    THEN Len(new) = Len(old)
                    ELSE Len(new) = Len(old) + 1 /\ SubSeq(new, 1, Len(old)) = old

C22_Witness ==
    /\ last.op = "result" /\ last.bn = "build_repeating_header"
    /\ Len(last.lines.b.headers) = 2
    /\ Len(last.res.headers) = 3


\* the headers MFBlock.write emitted for a written block
WrittenHeaders(bn) == IF Repeating(bn) THEN blocks[bn].headers ELSE <<blocks[bn].headers[1]>>

\* the text t stands in the file f from line p on and is followed by a
\* BEGIN line or by the end of the file
StandsAt(f, p, t) ==
    /\ p + Len(t) - 1 <= Len(f)
    /\ SubSeq(f, p, p + Len(t) - 1) = t
    /\ \/ p + Len(t) = Len(f) + 1
       \/ IsBeginLine(f[p + Len(t)])

\* C23: one written block instance puts into the package file, in this
\* order, the BEGIN line, the open/close line if an external file is set,
\* the dataset text and trailing comment if none is set, the END line, the
\* post-block comment and one blank line exactly when comments are off; with
\* an external file the dataset text and trailing comment are in that file
\* and not in the package file.
C23_EmissionOrder ==
    (last.op = "write" /\ last.st = "ok") =>
        \A bn \in BlockSet :
            (WasWritten(bn) /\ PairLines(last.lines, bn) = HeaderPairs(WrittenHeaders(bn))) =>
                \A k \in 1..Len(WrittenHeaders(bn)) :
                    LET h == WrittenHeaders(bn)[k]
                        tk == IF Len(h.items) > 0 THEN get_transient_key(h) ELSE None
                        data == DatasetsText(bn, blocks[bn], tk, 1)
                               \o (IF comments_on THEN TextLines(blocks[bn].trail) ELSE <<>>)
                        after == IF comments_on THEN PostText(bn) ELSE <<Line(<<>>)>>
                    IN /\ StandsAt(last.lines, NthHead(last.lines, "BEGIN", bn, k),
                                <<write_header(h)>>
                                \o (IF blocks[bn].ext = None THEN data
                                    ELSE <<ILine(<<"open/close", blocks[bn].ext[1]>>)>>)
                                \o <<write_footer(h)>> \o after)
                       /\ (blocks[bn].ext # None /\ k = Len(WrittenHeaders(bn))) =>
                              fs[blocks[bn].ext[1]] = data

C23_Witness ==
    /\ last.op = "write" /\ last.st = "ok"
    /\ \E bn \in BlockSet :
          /\ WasWritten(bn) /\ blocks[bn].ext # None /\ ~is_empty(blocks[bn])
          /\ PairLines(last.lines, bn) = HeaderPairs(WrittenHeaders(bn))
    /\ \E bn \in BlockSet :
          /\ WasWritten(bn) /\ blocks[bn].ext = None /\ ~is_empty(blocks[bn])
          /\ PairLines(last.lines, bn) = HeaderPairs(WrittenHeaders(bn))


\* the numbers k >= 1 whose alias of the name is registered and allowed, and
\* those whose alias ends the probing (not registered, or allowed)
AllowedAliasNums(a) == {k \in 1..4 : Alias(a.name, k) \in a.reg /\ Alias(a.name, k) \in a.ok}
ProbeEndNums(a) == {k \in 1..4 : Alias(a.name, k) \notin a.reg \/ Alias(a.name, k) \in a.ok}
Least(S) == CHOOSE k \in S : \A j \in S : k <= j

\* C24 as stated: a name n resolves to n if 'n-1' is not registered, else to
\* 'n-k' for the smallest k >= 1 with 'n-k' registered and allowed, and to an
\* unrecognized key if no registered alias is allowed.
C24_SkipsGaps ==
    (last.op = "result" /\ last.bn = "resolve_block_key") =>
        IF Alias(last.lines.name, 1) \notin last.lines.reg THEN last.res = last.lines.name
        ELSE IF AllowedAliasNums(last.lines) # {}
        THEN last.res = Alias(last.lines.name, Least(AllowedAliasNums(last.lines)))
        ELSE last.res \notin last.lines.reg

\* C24 (amended): a name n resolves to n if 'n-1' is not registered, else to
\* 'n-k' for the smallest k >= 1 for which 'n-k' is not registered or is
\* allowed; the block is unrecognized when that 'n-k' is not registered.
C24_NameResolution ==
    (last.op = "result" /\ last.bn = "resolve_block_key") =>
        IF Alias(last.lines.name, 1) \notin last.lines.reg THEN last.res = last.lines.name
        ELSE last.res = Alias(last.lines.name, Least(ProbeEndNums(last.lines)))

C24_Witness ==
    /\ last.op = "result" /\ last.bn = "resolve_block_key"
    /\ Alias(last.lines.name, 1) \in last.lines.reg /\ Alias(last.lines.name, 1) \notin last.lines.ok
    /\ last.res = Alias(last.lines.name, 3) /\ last.res \in last.lines.reg


\* C25: in a multi-dataset block a line without keyword goes to the loader
\* of the block's lone recarray only if no keyword matched on an earlier line
\* of the same block instance; after a keyword matched, no later line without
\* keyword is loaded as data.
C25_DefaultRecarray ==
    (last.op = "block_load" /\ Len(BlockDs(last.bn)) > 1) =>
        \A i \in 1..Len(last.log) :
            find_keyword(last.log[i].toks, KwSet(last.bn)) = None =>
                /\ Len(AllRecarrays(last.bn)) = 1
                /\ last.log[i].ds = AllRecarrays(last.bn)[1]
                /\ \A j \in 1..(i - 1) : find_keyword(last.log[j].toks, KwSet(last.bn)) = None


\* C26: a comment or blank line that _load_blocks reads before a recognized
\* block was opened is appended to the package header comment; one read after
\* a recognized block was opened is appended to the post-block comment and
\* the package header comment stays as it is.  A recognized block was opened
\* exactly when a call of MFBlock.load was dispatched during this scan.
C26_CommentPlacement ==
    [][(Scanning /\ CurScanLine # EOF /\ is_comment(CurScanLine.toks, TRUE)) =>
          IF blocks_read = 0
          THEN pkg_hdr' = Append(pkg_hdr, CurScanLine) /\ cmts' = cmts
          ELSE /\ post_ref' = post_ref
               /\ cmts' = [cmts EXCEPT ![post_ref] = Append(@, CurScanLine)]
               /\ pkg_hdr' = pkg_hdr]_vars

C26_Witness ==
    /\ last.op = "comment" /\ blocks_read > 0
    /\ Last(cmts[post_ref]) = last.lines[1]
    /\ \E i \in 1..(last.at - 1) : fs[PkgFile][i].toks = <<"BEGIN", "bogus">>


\* ------------------------------------------------------- the bounded scan
\* _load_blocks called with a max_blocks argument on the package file
InitMB ==
    /\ InitCommon
    /\ max_blocks \in 0..MaxBlocks
    /\ raa = FALSE /\ comments_on = FALSE /\ ds_valid = TRUE
    /\ \E f \in InputFiles : fs = [n \in FileNames |-> IF n = PkgFile THEN f ELSE ExtText]

NextMB ==
    \/ StartLoad
    \/ ScanComment
    \/ ScanStray
    \/ ScanBadHeader
    \/ ScanUnknownBlock
    \/ ScanSkipDuplicate
    \/ ScanLoadBlock
    \/ LoadReturn
    \/ LoadSpin

SpecMB == InitMB /\ [][NextMB]_vars

\* the calls of MFBlock.load dispatched so far in the scan: those that
\* returned and the one that did not
Dispatched ==
    blocks_read
    + (IF pc = "hang" \/ (last.op = "block_load"
                          /\ last.st \notin {"ok", "short", "dup", "transient"}) THEN 1 ELSE 0)

\* C27: with max_blocks = N >= 0 the scan dispatches at most N calls of
\* MFBlock.load and reads no line after the N-th dispatched call returned.
C27_BoundedScan ==
    /\ Dispatched <= max_blocks
    /\ (max_blocks >= 1 /\ blocks_read >= max_blocks) => pc # "scan"


\* the index of the first token of a line, after the block name, that starts
\* with a comment marker (one past the end when there is none)
FirstMarkerAt(toks) ==
    Least({i \in 3..Len(toks) : StartsWithMarker(toks[i])} \cup {Len(toks) + 1})

\* C28: for a line 'BEGIN name t1 ... tn' the header's name is the second
\* token, its variable_strings are the tokens after the name that precede the
\* first token starting with a comment marker, and its comment is that token
\* and all tokens after it.
C28_HeaderParsing ==
    (last.op = "result" /\ last.bn = "get_block_header_info") =>
        /\ last.res.exc = "none"
        /\ last.res.hdr.name = last.lines[2]
        /\ last.res.hdr.vs = SubSeq(last.lines, 3, FirstMarkerAt(last.lines) - 1)
        /\ last.res.hdr.cmt = SubSeq(last.lines, FirstMarkerAt(last.lines), Len(last.lines))


\* C29: a BEGIN line without block name makes _load_blocks raise
\* MFFileParseException; no other exception type leaves the scan for it.
C29_MalformedBegin ==
    (last.op = "bad_header" /\ Len(last.lines[1].toks) < 2) => exc = "MFFileParseException"


\* C30: data_factory returns a data holder for each declared kind and fails
\* with an error for any other kind; it never returns None.
C30_FactoryExhaustive ==
    (last.op = "result" /\ last.bn = "data_factory") =>
        /\ last.res # "None"
        /\ last.lines \in {"record", "keyword"} => last.res \in {"ValueError", "TypeError", "MFDataException"}
        /\ last.lines \notin {"record", "keyword"} =>
              last.res \in {"MFScalar", "MFScalarTransient", "MFArray", "MFTransientArray",
                            "MFList", "MFTransientList", "MFMultipleList"}


\* C31: in every state a loaded block is enabled, and no step of load,
\* add_dataset or write resets the enabled flag or the loaded flag of a block
\* from true to false (a reload works on a package that was just constructed).
C31_Lifecycle ==
    [][/\ \A bn \in BlockSet : blocks'[bn].loaded => blocks'[bn].enabled
       /\ last'.op # "reload" =>
             \A bn \in BlockSet : /\ blocks[bn].enabled => blocks'[bn].enabled
                                  /\ blocks[bn].loaded => blocks'[bn].loaded]_vars

\* a block that is constructed disabled was loaded, after a write
C31_Witness ==
    /\ last.op = "block_load" /\ last.st = "ok" /\ orig # None
    /\ ~MFBlock(last.bn).enabled
    /\ blocks[last.bn].loaded /\ blocks[last.bn].enabled


\* C32: a call of MFBlock.load that abandons the instance because the dataset
\* loader raised MFInvalidTransientBlockHeaderException leaves the enabled
\* flag, the loaded flag and block_headers of the block as they were before
\* the call.
C32_AbandonedInstance ==
    [][(last'.op = "block_load" /\ last'.st = "transient") =>
          /\ blocks'[last'.bn].enabled = blocks[last'.bn].enabled
          /\ blocks'[last'.bn].loaded = blocks[last'.bn].loaded
          /\ blocks'[last'.bn].headers = blocks[last'.bn].headers]_vars


\* C33: after a write that ended without exception, for a written repeating
\* block with an external file name and more than one block header, the
\* dataset text emitted for each header is present in an output file (the
\* external file or the package file): no instance's text was overwritten by
\* a later instance.
C33_ExternalInstances ==
    (last.op = "write" /\ last.st = "ok") =>
        \A bn \in BlockSet :
            (Repeating(bn) /\ blocks[bn].ext # None /\ WasWritten(bn)
             /\ Len(blocks[bn].headers) > 1) =>
                \A k \in 1..Len(blocks[bn].headers) :
                    LET h == blocks[bn].headers[k]
                        tk == IF Len(h.items) > 0 THEN get_transient_key(h) ELSE None
                        data == DatasetsText(bn, blocks[bn], tk, 1)
                    IN \/ Contains(fs[blocks[bn].ext[1]], data)
                       \/ Contains(fs[PkgFile], data)


\* C34: when _load_blocks has read the file to its end, every comment object
\* that holds a line stored after a block was opened is the post-block
\* comment registered in the data store for some block: no text stored after
\* a block is dropped by a later instance, an abandoned load or a skipped
\* duplicate.  (Stated for the first load of a package, before any write.)
C34_PostTextKept ==
    (last.op = "load_return" /\ orig = None) =>
        \A i \in 1..Len(cmts) :
            cmts[i] # <<>> => \E bn \in BlockSet : blk_post[bn] = i

====
